---- MODULE Spec2Model ----
(***************************************************************************)
(* Model of the burrow-app canvas: the exploration store                   *)
(* (src/src/store/explorationStore.ts), the canvas transform               *)
(* (src/src/components/Canvas.tsx), the gesture and zoom hooks             *)
(* (src/src/hooks/canvas/*.ts) and the node drag hook.                     *)
(*                                                                         *)
(* JavaScript numbers are modelled as exact rationals <<n, d>> in lowest   *)
(* terms with d > 0; IEEE-754 rounding is not modelled.                    *)
(***************************************************************************)
EXTENDS Integers, Sequences, FiniteSets, TLC

(***************************************************************************)
(* Number arithmetic (exact rationals).                                    *)
(***************************************************************************)
Abs(i) == IF i < 0 THEN -i ELSE i

RECURSIVE GCD(_, _)
GCD(a, b) == IF b = 0 THEN a ELSE GCD(b, a % b)

Quot(n, d, g) == <<n \div g, d \div g>>

Norm(n, d) == Quot(IF d < 0 THEN -n ELSE n, Abs(d), GCD(Abs(n), Abs(d)))

RInt(i) == <<i, 1>>

\* Sums, products and comparisons divide out common factors first, which
\* keeps the intermediate products small.
AddOver(a, b, g) ==
  Norm(a[1] * (b[2] \div g) + b[1] * (a[2] \div g), (a[2] \div g) * b[2])
SubOver(a, b, g) ==
  Norm(a[1] * (b[2] \div g) - b[1] * (a[2] \div g), (a[2] \div g) * b[2])
MulOver(a, b, g1, g2) ==
  Norm((a[1] \div g1) * (b[1] \div g2), (a[2] \div g2) * (b[2] \div g1))
LtOver(a, b, g) == a[1] * (b[2] \div g) < b[1] * (a[2] \div g)
LeOver(a, b, g) == a[1] * (b[2] \div g) <= b[1] * (a[2] \div g)

RAdd(a, b) == AddOver(a, b, GCD(a[2], b[2]))
RSub(a, b) == SubOver(a, b, GCD(a[2], b[2]))
RMul(a, b) == MulOver(a, b, GCD(Abs(a[1]), b[2]), GCD(Abs(b[1]), a[2]))
RDiv(a, b) == RMul(a, <<b[2], b[1]>>)
RNeg(a) == <<-a[1], a[2]>>
RLt(a, b) == LtOver(a, b, GCD(a[2], b[2]))
RLe(a, b) == LeOver(a, b, GCD(a[2], b[2]))
RMin(a, b) == IF RLt(b, a) THEN b ELSE a
RMax(a, b) == IF RLt(a, b) THEN b ELSE a
RAbs(a) == <<Abs(a[1]), a[2]>>
RHalf(a) == RDiv(a, RInt(2))

NULL == "<null>"

(***************************************************************************)
(* Configuration: src/src/config/nodeConfig.ts and the store's constants.  *)
(***************************************************************************)
NodeSize == {"sm", "md", "lg", "xl"}

NODE_SIZES ==
  [ sm |-> [width |-> 240, maxHeight |-> 320, minHeight |-> 140],
    md |-> [width |-> 320, maxHeight |-> 400, minHeight |-> 140],
    lg |-> [width |-> 400, maxHeight |-> 480, minHeight |-> 140],
    xl |-> [width |-> 480, maxHeight |-> 560, minHeight |-> 140] ]

DEFAULT_NODE_SIZE == "md"
DEFAULT_X == 500
DEFAULT_Y == 300

\* Texts (node content, questions, descriptions) are tokens; TextLen is the
\* length of the string a token stands for.  NULL stands for undefined.
Texts == {"start", "short", "medium", "long", "huge", "fallback", "retry", "rephrase", ""}

TextLen(t) ==
  CASE t = "start" -> 30
    [] t = "rephrase" -> 29
    [] t = "retry" -> 38
    [] t = "short" -> 40
    [] t = "fallback" -> 91
    [] t = "medium" -> 250
    [] t = "long" -> 350
    [] t = "huge" -> 450
    [] OTHER -> 0

Max2(a, b) == IF a < b THEN b ELSE a

\* A node object.  A field that is undefined in JavaScript is NULL.
MkNode(id, type, content, question, position, size) ==
  [ id |-> id, type |-> type, content |-> content, question |-> question,
    description |-> NULL, position |-> position, size |-> size ]

Pos(px, py) == [x |-> RInt(px), y |-> RInt(py)]

\* The position of a node object that has no position property.
NoPosition == [x |-> <<0, 0>>, y |-> <<0, 0>>]

Truthy(t) == t # NULL /\ t # ""

sizeForLength(maxLength) ==
  IF maxLength > 400 THEN "xl"
  ELSE IF maxLength > 300 THEN "lg"
  ELSE IF maxLength > 200 THEN "md"
  ELSE "sm"

calculateNodeSize(node) ==
  sizeForLength(
    Max2(TextLen(node.content),
         Max2(TextLen(node.question),
              IF node.type = "branch" THEN TextLen(node.description) ELSE 0)))

\* getNodeSize (and the identical getNodeDimensions of repositionOverlappingNodes):
\* the box the store uses for a node.
dimensionsBox(dimensions, question) ==
  [ width |-> RInt(dimensions.width),
    height |-> IF Truthy(question) THEN RInt(dimensions.maxHeight)
               ELSE RInt(dimensions.minHeight) ]

getNodeSize(node) ==
  dimensionsBox(NODE_SIZES[IF node.size # NULL THEN node.size
                           ELSE calculateNodeSize(node)],
                node.question)

\* Bounds of a node's box, inflated by `buffer` on each side.
BoxAround(position, s, buffer) ==
  [ left |-> RSub(RSub(position.x, RHalf(s.width)), buffer),
    right |-> RAdd(RAdd(position.x, RHalf(s.width)), buffer),
    top |-> RSub(RSub(position.y, RHalf(s.height)), buffer),
    bottom |-> RAdd(RAdd(position.y, RHalf(s.height)), buffer) ]

BoxOf(node, buffer) == BoxAround(node.position, getNodeSize(node), buffer)

\* The overlap test of doNodesOverlap, with the buffer as a parameter.
BoxesOverlap(b1, b2) ==
  /\ RLt(b1.left, b2.right)
  /\ RLt(b2.left, b1.right)
  /\ RLt(b1.top, b2.bottom)
  /\ RLt(b2.top, b1.bottom)

doNodesOverlap(node1, node2) ==
  BoxesOverlap(BoxOf(node1, RInt(20)), BoxOf(node2, RInt(20)))

(***************************************************************************)
(* Record<string, T>: a JavaScript object with string keys, kept as the    *)
(* sequence of its entries in insertion order (the order of Object.keys    *)
(* and Object.values).                                                     *)
(***************************************************************************)
Keys(m) == [i \in 1..Len(m) |-> m[i].key]
KeySet(m) == {m[i].key : i \in 1..Len(m)}
Has(m, k) == \E i \in 1..Len(m) : m[i].key = k
Get(m, k) == m[CHOOSE i \in 1..Len(m) : m[i].key = k].val
Put(m, k, v) ==
  IF Has(m, k)
  THEN [i \in 1..Len(m) |-> IF m[i].key = k THEN [key |-> k, val |-> v] ELSE m[i]]
  ELSE Append(m, [key |-> k, val |-> v])
Del(m, k) == SelectSeq(m, LAMBDA e : e.key # k)

(***************************************************************************)
(* resolveCollisionsForNode (the helper, explorationStore.ts 61-117).      *)
(***************************************************************************)
maxIterations == 10

\* Mutant of isParentChild: only a connection from node1Id to node2Id counts.
isParentChildOneWay(conns, node1Id, node2Id) ==
  \E i \in 1..Len(conns) :
    conns[i].source = node1Id /\ conns[i].target = node2Id

isParentChild(conns, node1Id, node2Id) ==
  \E i \in 1..Len(conns) :
    \/ conns[i].source = node1Id /\ conns[i].target = node2Id
    \/ conns[i].source = node2Id /\ conns[i].target = node1Id

\* Overlap amounts of the unbuffered boxes of two nodes.
boxOverlapX(b1, b2) == RSub(RMin(b1.right, b2.right), RMax(b1.left, b2.left))
boxOverlapY(b1, b2) == RSub(RMin(b1.bottom, b2.bottom), RMax(b1.top, b2.top))

overlapX(n1, n2) == boxOverlapX(BoxOf(n1, RInt(0)), BoxOf(n2, RInt(0)))
overlapY(n1, n2) == boxOverlapY(BoxOf(n1, RInt(0)), BoxOf(n2, RInt(0)))

\* Mutant of PushAxisIsX: the push goes along the axis of the larger overlap.
PushAxisIsLargerOverlap(ox, oy) == RLt(oy, ox)

\* The axis the moved node is pushed along: x if overlapX < overlapY, else y.
PushAxisIsX(ox, oy) == RLt(ox, oy)

moveDirection(moved, other) == IF RLt(moved, other) THEN RInt(-1) ELSE RInt(1)

\* The body of `if (overlapX > 0 && overlapY > 0)`.
pushOut(movedNode, otherNode, ox, oy) ==
  IF RLt(RInt(0), ox) /\ RLt(RInt(0), oy)
  THEN IF PushAxisIsX(ox, oy)
       THEN [ node |-> [movedNode EXCEPT !.position.x =
                          RAdd(@, RMul(moveDirection(movedNode.position.x,
                                                     otherNode.position.x), ox))],
              hit |-> TRUE ]
       ELSE [ node |-> [movedNode EXCEPT !.position.y =
                          RAdd(@, RMul(moveDirection(movedNode.position.y,
                                                     otherNode.position.y), oy))],
              hit |-> TRUE ]
  ELSE [node |-> movedNode, hit |-> FALSE]

\* The push of one forEach callback: the moved node against one other node.
\* Returns the moved node (position possibly changed) and whether it overlapped.
resolveOne(movedNode, otherNode) ==
  pushOut(movedNode, otherNode, overlapX(movedNode, otherNode),
          overlapY(movedNode, otherNode))

\* One forEach callback applied to the pass's running result
\* acc = [node |-> the moved node, hit |-> hasOverlaps].
resolveStep(conns, nodeId, otherNode, acc) ==
  IF otherNode.id = nodeId \/ isParentChild(conns, acc.node.id, otherNode.id)
  THEN acc
  ELSE [resolveOne(acc.node, otherNode) EXCEPT !.hit = @ \/ acc.hit]

\* One pass of Object.values(nodes).forEach, from entry i on.  The value
\* stored under nodeId is the moved node object itself, so the callback sees
\* it with the pushes made so far.
RECURSIVE resolvePass(_, _, _, _, _)
resolvePass(ns, conns, nodeId, i, acc) ==
  IF i > Len(ns) THEN acc
  ELSE resolvePass(ns, conns, nodeId, i + 1,
                   resolveStep(conns, nodeId,
                               IF ns[i].key = nodeId THEN acc.node ELSE ns[i].val, acc))

\* The while loop: returns the moved node and the number of passes made.
RECURSIVE resolveLoop(_, _, _, _, _)
resolveLoop(ns, conns, nodeId, acc, iteration) ==
  IF acc.hit /\ iteration < maxIterations
  THEN resolveLoop(ns, conns, nodeId,
                   resolvePass(ns, conns, nodeId, 1, [acc EXCEPT !.hit = FALSE]),
                   iteration + 1)
  ELSE [node |-> acc.node, iterations |-> iteration]

\* Mutant of resolveCollisionsForNode: the resolved position is written to
\* every node of the map.
resolveCollisionsMovingAll(ns, conns, nodeId) ==
  IF ~Has(ns, nodeId) THEN ns
  ELSE [ i \in 1..Len(ns) |->
           [ key |-> ns[i].key,
             val |-> [ ns[i].val EXCEPT !.position =
                         resolveLoop(ns, conns, nodeId,
                                     [node |-> Get(ns, nodeId), hit |-> TRUE],
                                     0).node.position ] ] ]

\* The nodes map after resolveCollisionsForNode(nodes, nodeId); the moved node
\* is mutated in place, every other entry is left alone.
resolveCollisionsForNode(ns, conns, nodeId) ==
  IF ~Has(ns, nodeId) THEN ns
  ELSE Put(ns, nodeId,
           resolveLoop(ns, conns, nodeId, [node |-> Get(ns, nodeId), hit |-> TRUE], 0).node)

resolveIterations(ns, conns, nodeId) ==
  IF ~Has(ns, nodeId) THEN 1
  ELSE resolveLoop(ns, conns, nodeId, [node |-> Get(ns, nodeId), hit |-> TRUE], 0).iterations

(***************************************************************************)
(* addBranchNodes (explorationStore.ts 307-354): layout of the children    *)
(* and the new nodes and connections.                                      *)
(***************************************************************************)
horizontalOffset == 700
verticalSpacing == 160

\* The key under which newNodes[node.id] stores a node: an undefined id
\* becomes the property name "undefined".
KeyOfId(id) == IF id = NULL THEN "undefined" ELSE id

\* Mutant of layoutStartY: the column starts a whole totalHeight above the parent.
layoutStartYNotHalved(parentY, totalNodes) ==
  RSub(parentY, RInt((totalNodes - 1) * verticalSpacing))

\* startY of the column of totalNodes children.
layoutStartY(parentY, totalNodes) ==
  RSub(parentY, RHalf(RInt((totalNodes - 1) * verticalSpacing)))

\* Position of the child at `index` (0-based) among totalNodes children.
layoutChild(parentPos, totalNodes, index) ==
  [ x |-> RAdd(parentPos.x, RInt(horizontalOffset)),
    y |-> RAdd(layoutStartY(parentPos.y, totalNodes), RInt(index * verticalSpacing)) ]

\* node.size = calculateNodeSize(node)
withCalculatedSize(node) == [node EXCEPT !.size = calculateNodeSize(node)]

\* The node object after the forEach callback has positioned and sized it.
placedChild(parentPos, node, totalNodes, index) ==
  withCalculatedSize([node EXCEPT !.position = layoutChild(parentPos, totalNodes, index)])

\* Mutant of addChild: the connection is stored child -> parent.
addChildReversedEdge(acc, parentId, node) ==
  [ nodes |-> Put(acc.nodes, KeyOfId(node.id), node),
    connections |-> Append(acc.connections, [source |-> node.id, target |-> parentId]) ]

\* newNodes[node.id] = node; newConnections.push({source: parentId, target: node.id})
addChild(acc, parentId, node) ==
  [ nodes |-> Put(acc.nodes, KeyOfId(node.id), node),
    connections |-> Append(acc.connections, [source |-> parentId, target |-> node.id]) ]

\* branchNodes.forEach from entry i on; acc holds newNodes and newConnections.
RECURSIVE addChildren(_, _, _, _, _)
addChildren(acc, parentId, parentPos, branchNodes, i) ==
  IF i > Len(branchNodes) THEN acc
  ELSE addChildren(addChild(acc, parentId,
                            placedChild(parentPos, branchNodes[i], Len(branchNodes), i - 1)),
                   parentId, parentPos, branchNodes, i + 1)

\* parentNode.position is read before the loop: a missing parent (or one
\* without a position) raises a TypeError inside set().
addBranchNodesThrows(ns, parentId) ==
  \/ ~Has(ns, parentId)
  \/ Get(ns, parentId).position = NoPosition

addBranchNodesResult(ns, conns, parentId, branchNodes) ==
  addChildren([nodes |-> ns, connections |-> conns], parentId,
              Get(ns, parentId).position, branchNodes, 1)

(***************************************************************************)
(* repositionOverlappingNodes (explorationStore.ts 506-627).               *)
(***************************************************************************)
expandBuffer == 40

\* expandedBounds: the box of the expanded node, inflated by the buffer.
expandedBounds(expandedNode) == BoxOf(expandedNode, RInt(expandBuffer))

\* The filter of nodesToReposition.
needsReposition(expandedNode, expandedNodeId, node) ==
  /\ node.id # expandedNodeId
  /\ BoxesOverlap(expandedBounds(expandedNode), BoxOf(node, RInt(0)))

\* verticalShift and horizontalShift: `low`/`high` are the expanded bounds on
\* the axis, `half` is half of the expanded node's extent on it.
axisShift(d, coord, low, high, half, buffer) ==
  IF RLe(RInt(0), d)
  THEN RAdd(RSub(high, RSub(coord, half)), buffer)
  ELSE RSub(RNeg(RSub(RAdd(coord, half), low)), buffer)

pushedFrom(position, dx, dy, eb, dims, buffer) ==
  IF RLe(RAbs(dy), RAbs(dx))
  THEN [ x |-> position.x,
         y |-> RAdd(position.y,
                    axisShift(dy, position.y, eb.top, eb.bottom, RHalf(dims.height), buffer)) ]
  ELSE [ x |-> RAdd(position.x,
                    axisShift(dx, position.x, eb.left, eb.right, RHalf(dims.width), buffer)),
         y |-> position.y ]

\* The new position of one overlapping node.
pushedPosition(expandedNode, node) ==
  pushedFrom(node.position,
             RSub(node.position.x, expandedNode.position.x),
             RSub(node.position.y, expandedNode.position.y),
             expandedBounds(expandedNode), getNodeSize(expandedNode), RInt(expandBuffer))

\* Reading .position.x of a node object that has no position raises a TypeError.
repositionThrows(ns, expandedNodeId) ==
  /\ Has(ns, expandedNodeId)
  /\ \E i \in 1..Len(ns) : ns[i].val.position = NoPosition

\* nodes[node.id] = {...node, position} for one node of nodesToReposition.
repositionStep(ns, expandedNode, expandedNodeId, node) ==
  IF needsReposition(expandedNode, expandedNodeId, node)
  THEN Put(ns, KeyOfId(node.id),
           [node EXCEPT !.position = pushedPosition(expandedNode, node)])
  ELSE ns

\* The filter and the forEach over Object.values(nodes), from entry i on.
RECURSIVE repositionFrom(_, _, _, _, _)
repositionFrom(ns, orig, expandedNode, expandedNodeId, i) ==
  IF i > Len(orig) THEN ns
  ELSE repositionFrom(repositionStep(ns, expandedNode, expandedNodeId, orig[i].val),
                      orig, expandedNode, expandedNodeId, i + 1)

repositionResult(ns, expandedNodeId) ==
  repositionFrom(ns, ns, Get(ns, expandedNodeId), expandedNodeId, 1)

(***************************************************************************)
(* The store (explorationStore.ts 188-737).  A store state is the record   *)
(* of the fields of the zustand state; every action below is the function  *)
(* from the state before the call to the state after it.  The updatedAt    *)
(* and createdAt timestamps are not modelled.                              *)
(***************************************************************************)
UndefinedNode == MkNode(NULL, NULL, NULL, NULL, NoPosition, NULL)

NoConnectionsField == [present |-> FALSE, list |-> <<>>]

\* createDefaultExploration: id is the uuid drawn for it.
createDefaultExploration(id) ==
  [ id |-> id,
    title |-> "default",
    nodes |-> << [ key |-> "explore",
                   val |-> MkNode("explore", "explore", "start", NULL,
                                  Pos(DEFAULT_X, DEFAULT_Y), DEFAULT_NODE_SIZE) ] >>,
    activeNodeId |-> "explore",
    connections |-> NoConnectionsField ]

\* The exploration object written back by an action that spreads
\* explorations[currentExplorationId] and overrides some fields.
WithCurrent(st, f(_)) ==
  IF st.currentExplorationId # NULL
  THEN Put(st.explorations, st.currentExplorationId,
           f(Get(st.explorations, st.currentExplorationId)))
  ELSE st.explorations

setActiveNode(st, nodeId) ==
  [st EXCEPT !.activeNodeId = nodeId,
             !.explorations =
               WithCurrent(st, LAMBDA e : [e EXCEPT !.activeNodeId = nodeId])]

NodeOrUndefined(ns, nodeId) == IF Has(ns, nodeId) THEN Get(ns, nodeId) ELSE UndefinedNode

\* Mutant of withNodes: the nodes are written into every stored exploration.
withNodesEverywhere(st, ns) ==
  [st EXCEPT !.nodes = ns,
             !.explorations =
               [ i \in 1..Len(st.explorations) |->
                   [st.explorations[i] EXCEPT !.val.nodes = ns] ]]

\* return { nodes, explorations } with the current exploration's nodes replaced.
withNodes(st, ns) ==
  [st EXCEPT !.nodes = ns,
             !.explorations = WithCurrent(st, LAMBDA e : [e EXCEPT !.nodes = ns])]

updateNodeContent(st, nodeId, content) ==
  withNodes(st, Put(st.nodes, nodeId,
                    [NodeOrUndefined(st.nodes, nodeId) EXCEPT !.content = content]))

updateNodeQuestion(st, nodeId, question) ==
  withNodes(st, Put(st.nodes, nodeId,
                    [NodeOrUndefined(st.nodes, nodeId) EXCEPT !.question = question]))

updateNodePosition(st, nodeId, position) ==
  withNodes(st, Put(st.nodes, nodeId,
                    [NodeOrUndefined(st.nodes, nodeId) EXCEPT !.position = position]))

\* return { nodes: newNodes, connections: newConnections, explorations }
withNodesAndConnections(st, r) ==
  [st EXCEPT !.nodes = r.nodes,
             !.connections = r.connections,
             !.explorations =
               WithCurrent(st, LAMBDA e :
                 [e EXCEPT !.nodes = r.nodes,
                           !.connections = [present |-> TRUE, list |-> r.connections]])]

addBranchNodes(st, parentId, branchNodes) ==
  withNodesAndConnections(
    st, addBranchNodesResult(st.nodes, st.connections, parentId, branchNodes))

\* The state that makes newExploration, stored under id, the current one.
adoptExploration(st, explorationsAfter, id, exploration) ==
  [st EXCEPT !.explorations = explorationsAfter,
             !.currentExplorationId = id,
             !.nodes = exploration.nodes,
             !.activeNodeId = exploration.activeNodeId]

titledExploration(d, title) == IF Truthy(title) THEN [d EXCEPT !.title = title] ELSE d

storeNewExploration(st, id, newExploration) ==
  adoptExploration(st, Put(st.explorations, id, newExploration), id, newExploration)

createNewExploration(st, id, title) ==
  storeNewExploration(st, id, titledExploration(createDefaultExploration(id), title))

\* clearExploration calls createNewExploration().
clearExploration(st, id) == createNewExploration(st, id, NULL)

\* Mutant of afterCurrentDeleted: no default exploration is created when none is left.
afterCurrentDeletedNoFallback(st, updatedExplorations, id) ==
  IF Len(updatedExplorations) > 0
  THEN adoptExploration(st, updatedExplorations, Keys(updatedExplorations)[1],
                        updatedExplorations[1].val)
  ELSE [st EXCEPT !.explorations = updatedExplorations]

\* The branch of deleteExploration taken when the current exploration was deleted.
afterCurrentDeleted(st, updatedExplorations, id) ==
  IF Len(updatedExplorations) > 0
  THEN adoptExploration(st, updatedExplorations, Keys(updatedExplorations)[1],
                        updatedExplorations[1].val)
  ELSE adoptExploration(st, Put(updatedExplorations, id, createDefaultExploration(id)),
                        id, createDefaultExploration(id))

\* Mutant of deleteExploration: the current exploration is never replaced.
deleteExplorationKeepingCurrent(st, explorationId, id) ==
  [st EXCEPT !.explorations = Del(st.explorations, explorationId)]

\* `id` is the uuid createDefaultExploration draws when none is left.
deleteExploration(st, explorationId, id) ==
  IF st.currentExplorationId = explorationId
  THEN afterCurrentDeleted(st, Del(st.explorations, explorationId), id)
  ELSE [st EXCEPT !.explorations = Del(st.explorations, explorationId)]

withNodesAndActive(st, updatedNodes, updatedActiveNodeId) ==
  [st EXCEPT !.nodes = updatedNodes,
             !.activeNodeId = updatedActiveNodeId,
             !.explorations =
               WithCurrent(st, LAMBDA e :
                 [e EXCEPT !.nodes = updatedNodes,
                           !.activeNodeId = updatedActiveNodeId])]

activeAfterDelete(st, nodeId, updatedNodes) ==
  IF st.activeNodeId = nodeId THEN Keys(updatedNodes)[1] ELSE st.activeNodeId

\* Mutant of deleteNode: the guard on the last node is dropped.
deleteNodeUnguarded(st, nodeId) ==
  withNodesAndActive(st, Del(st.nodes, nodeId),
                     IF st.activeNodeId = nodeId /\ Len(Del(st.nodes, nodeId)) > 0
                     THEN Keys(Del(st.nodes, nodeId))[1] ELSE st.activeNodeId)

deleteNode(st, nodeId) ==
  IF Len(st.nodes) <= 1 THEN st
  ELSE withNodesAndActive(st, Del(st.nodes, nodeId),
                          activeAfterDelete(st, nodeId, Del(st.nodes, nodeId)))

\* Mutant of switchExploration: only currentExplorationId is changed.
switchExplorationKeepingNodes(st, explorationId) ==
  IF ~Has(st.explorations, explorationId) THEN st
  ELSE [st EXCEPT !.currentExplorationId = explorationId]

switchExploration(st, explorationId) ==
  IF ~Has(st.explorations, explorationId) THEN st
  ELSE adoptExploration(st, st.explorations, explorationId,
                        Get(st.explorations, explorationId))

updateExplorationTitle(st, explorationId, title) ==
  IF ~Has(st.explorations, explorationId) THEN st
  ELSE [st EXCEPT !.explorations =
          Put(st.explorations, explorationId,
              [Get(st.explorations, explorationId) EXCEPT !.title = title])]

\* Mutant of repositionOverlappingNodes: the `expanded` flag is ignored.
repositionRegardless(st, expandedNodeId, expanded) ==
  IF ~Has(st.nodes, expandedNodeId) THEN st
  ELSE withNodes(st, repositionResult(st.nodes, expandedNodeId))

repositionOverlappingNodes(st, expandedNodeId, expanded) ==
  IF ~expanded THEN st
  ELSE IF ~Has(st.nodes, expandedNodeId) THEN st
  ELSE withNodes(st, repositionResult(st.nodes, expandedNodeId))

\* The store action resolveCollisionsForNode (630-647).
resolveCollisionsForNodeAction(st, nodeId) ==
  withNodes(st, resolveCollisionsForNode(st.nodes, st.connections, nodeId))

\* setConnections (686-701).
setConnections(st, newConnections) ==
  [st EXCEPT !.connections = newConnections,
             !.explorations =
               WithCurrent(st, LAMBDA e :
                 [e EXCEPT !.connections = [present |-> TRUE, list |-> newConnections]])]

updateNodeSize(st, nodeId, size) ==
  withNodes(st, IF Has(st.nodes, nodeId)
                THEN Put(st.nodes, nodeId, [Get(st.nodes, nodeId) EXCEPT !.size = size])
                ELSE st.nodes)

\* The state built by the store's initializer (190-209).
InitialStore(id) ==
  LET defaultExploration == createDefaultExploration(id)
  IN  [ explorations |-> << [key |-> id, val |-> defaultExploration] >>,
        currentExplorationId |-> id,
        nodes |-> defaultExploration.nodes,
        activeNodeId |-> defaultExploration.activeNodeId,
        connections |-> <<>> ]

\* A TypeError inside resolveCollisionsForNode: a node compared with the moved
\* node (or the moved node itself) has no position.
\* The callback for entry i is not skipped and reads .x of a missing position.
resolveThrowsAt(ns, conns, nodeId, i) ==
  /\ ns[i].val.id # nodeId
  /\ ~isParentChild(conns, Get(ns, nodeId).id, ns[i].val.id)
  /\ (ns[i].val.position = NoPosition \/ Get(ns, nodeId).position = NoPosition)

resolveThrows(ns, conns, nodeId) ==
  /\ Has(ns, nodeId)
  /\ \E i \in 1..Len(ns) : resolveThrowsAt(ns, conns, nodeId, i)

\* The moved node when the first pass throws: the callbacks for the entries
\* before the throwing one have already pushed it.
resolveBeforeThrow(ns, conns, nodeId) ==
  resolvePass(SubSeq(ns, 1, (CHOOSE i \in 1..Len(ns) :
                               /\ resolveThrowsAt(ns, conns, nodeId, i)
                               /\ \A j \in 1..(i - 1) :
                                    ~resolveThrowsAt(ns, conns, nodeId, j)) - 1),
              conns, nodeId, 1, [node |-> Get(ns, nodeId), hit |-> FALSE]).node

\* The store after a resolveCollisionsForNode call that throws: set() stores
\* nothing, but the pushes were made on the node object that both
\* state.nodes and the current exploration's nodes hold.
resolveCollisionsForNodeThrown(st, nodeId) ==
  withNodes(st, Put(st.nodes, nodeId,
                    resolveBeforeThrow(st.nodes, st.connections, nodeId)))

(***************************************************************************)
(* The canvas transform (Canvas.tsx).  A transform is the record of the    *)
(* three motion values x, y and scale.                                     *)
(***************************************************************************)
\* Model bounds: the size of the window and of the container (the container
\* is w-full h-screen), and the container's offset in the window.
ViewportWidth == 800
ViewportHeight == 600
ContainerLeft == 0
ContainerTop == 0

MinScale == <<1, 2>>
MaxScale == <<1, 1>>

\* Mutant of clampScale: the lower limit is not applied.
clampScaleWithoutMinimum(s) == RMin(MaxScale, s)

\* Math.min(1.0, Math.max(0.5, s)) (Canvas.tsx 89).
clampScale(s) == RMin(MaxScale, RMax(MinScale, s))

NoFocus == [given |-> FALSE, x |-> RInt(0), y |-> RInt(0)]
Focus(cx, cy) == [given |-> TRUE, x |-> cx, y |-> cy]

\* The point of the container that handleZoom keeps fixed: the client point
\* relative to the container, or the container's centre (Canvas.tsx 91-130).
zoomAnchor(t, zoomFactor, focus) ==
  LET nextScale == clampScale(RMul(t.scale, zoomFactor))
  IN  IF nextScale # t.scale /\ focus.given
      THEN [ x |-> RSub(focus.x, RInt(ContainerLeft)),
             y |-> RSub(focus.y, RInt(ContainerTop)) ]
      ELSE [ x |-> RHalf(RInt(ViewportWidth)), y |-> RHalf(RInt(ViewportHeight)) ]

\* The scale handleZoom sets.
zoomNextScale(currentScale, zoomFactor) == clampScale(RMul(currentScale, zoomFactor))

\* Mutant of zoomNewPan: the world point computed without the current pan.
zoomNewPanIgnoringPan(anchor, current, currentScale, nextScale) ==
  LET world == RDiv(anchor, currentScale)
  IN  RSub(anchor, RMul(world, nextScale))

\* The pan handleZoom sets along one axis: anchor - world * nextScale.
zoomNewPan(anchor, current, currentScale, nextScale) ==
  LET world == RDiv(RSub(anchor, current), currentScale)
  IN  RSub(anchor, RMul(world, nextScale))

\* handleZoom (Canvas.tsx 80-131).
handleZoom(t, zoomFactor, focus) ==
  LET nextScale == zoomNextScale(t.scale, zoomFactor)
      anchor == zoomAnchor(t, zoomFactor, focus)
  IN  [ x |-> zoomNewPan(anchor.x, t.x, t.scale, nextScale),
        y |-> zoomNewPan(anchor.y, t.y, t.scale, nextScale),
        scale |-> nextScale ]

\* handlePan (Canvas.tsx 175-186).
handlePan(t, dragging, dx, dy) ==
  IF dragging # NULL THEN t
  ELSE [t EXCEPT !.x = RAdd(t.x, dx), !.y = RAdd(t.y, dy)]

\* The zoom factor handleWheelZoom derives from a wheel event (211-223).
wheelZoomFactor(e) ==
  LET direction == IF RLt(e.deltaY, RInt(0)) THEN RInt(1) ELSE RInt(-1)
  IN  IF e.ctrlKey
      THEN LET magnitude == RMin(RDiv(RAbs(e.deltaY), RInt(100)), <<1, 5>>)
           IN  RAdd(RInt(1), RMul(RMul(direction, magnitude), <<3, 10>>))
      ELSE RAdd(RInt(1), RMul(direction, <<1, 20>>))

\* handleWheelZoom, the window's capturing wheel listener (197-230): the
\* transform it leaves and whether it stopped the event's propagation.
handleWheelZoom(t, dragging, e) ==
  IF dragging # NULL THEN [t |-> t, stopped |-> FALSE]
  ELSE [ t |-> handleZoom(t, wheelZoomFactor(e), Focus(e.clientX, e.clientY)),
         stopped |-> TRUE ]

\* onWheel of useCanvasGestures (177-207).  `throttled` is the outcome of the
\* 16 ms test on the time of the last zoom.
onWheel(t, dragging, e, throttled) ==
  IF dragging # NULL THEN t
  ELSE IF e.ctrlKey
       THEN IF throttled THEN t
            ELSE handleZoom(t, IF RLt(RInt(0), RNeg(e.deltaY)) THEN <<11, 10>> ELSE <<9, 10>>,
                            Focus(e.clientX, e.clientY))
       ELSE handlePan(t, dragging, RNeg(e.deltaX), RNeg(e.deltaY))

\* A wheel event over the canvas: the window listener runs in the capture
\* phase; the container's onWheel runs only if propagation was not stopped.
wheelEvent(t, dragging, e, throttled) ==
  LET w == handleWheelZoom(t, dragging, e)
  IN  IF w.stopped THEN w.t ELSE onWheel(w.t, dragging, e, throttled)

\* onPinch of useCanvasGestures (153-159): the offset scale is the factor.
onPinch(t, s, ox, oy) == handleZoom(t, s, Focus(ox, oy))

\* handleZoomButton of useZoomControls (94-120).
handleZoomButton(t, zoomIn) ==
  LET centerX == RHalf(RInt(ViewportWidth))
      centerY == RHalf(RInt(ViewportHeight))
      zoomStep == <<1, 10>>
      newScale == IF zoomIn THEN RMin(MaxScale, RAdd(t.scale, zoomStep))
                  ELSE RMax(MinScale, RSub(t.scale, zoomStep))
      zoomFactor == RDiv(newScale, t.scale)
  IN  handleZoom(t, zoomFactor, Focus(centerX, centerY))

\* resetView of Canvas (145-167): `has` tells whether nodes[activeNodeId] was
\* defined in the render that made the closure and `node` is that node.  A
\* node object without a position makes the first x.set throw.
resetView(t, has, node) ==
  IF ~has THEN [x |-> RInt(0), y |-> RInt(0), scale |-> RInt(1)]
  ELSE IF node.position = NoPosition THEN t
  ELSE [ x |-> RSub(RHalf(RInt(ViewportWidth)), node.position.x),
         y |-> RSub(RHalf(RInt(ViewportHeight)), node.position.y),
         scale |-> RInt(1) ]

\* screenToWorld along one axis: (screen - pan) / scale.
screenToWorld(screen, pan, sc) == RDiv(RSub(screen, pan), sc)

(***************************************************************************)
(* State.                                                                  *)
(***************************************************************************)
VARIABLES
  explorations,          \* store: Record<string, Exploration>
  currentExplorationId,  \* store
  nodes,                 \* store: Record<string, Node>
  activeNodeId,          \* store
  connections,           \* store: Connection[]
  x, y, scale,           \* Canvas: the motion values
  animation,             \* framer-motion: the animation running on each motion value
  isDragging,            \* Canvas: useState, a canvas drag is in progress
  dragMemo,              \* use-gesture: the drag gesture's state and memo
  draggingNodeId,        \* useNodeDragging: useState
  draggedNodeRef,        \* useNodeDragging: useRef
  isDraggingRef,         \* useNodeDragging: useRef
  animationFrameRef,     \* useNodeDragging: useRef, a frame is requested
  resetTimers,           \* Canvas: pending setTimeout(resetView, 100), oldest first
  centerTimer,           \* Canvas: the pending 50 ms centring timeout
  exploring,             \* handleExplore calls suspended at their await, oldest first
  listeners,             \* the pointer listeners registered on document and window
  mounted,               \* the canvas view is mounted
  zooms,                 \* observation: number of zoom events so far
  last,                  \* observation: the call made by the last step
  budget                 \* observation: number of steps taken so far

storeVars == <<explorations, currentExplorationId, nodes, activeNodeId, connections>>
transformVars == <<x, y, scale>>
canvasVars == <<animation, isDragging, dragMemo, draggingNodeId, draggedNodeRef,
                isDraggingRef, animationFrameRef, resetTimers, centerTimer, exploring,
                listeners, mounted, zooms>>
vars == <<explorations, currentExplorationId, nodes, activeNodeId, connections,
          x, y, scale, animation, isDragging, dragMemo, draggingNodeId,
          draggedNodeRef, isDraggingRef, animationFrameRef, resetTimers,
          centerTimer, exploring, listeners, mounted, zooms, last, budget>>

StoreState ==
  [ explorations |-> explorations, currentExplorationId |-> currentExplorationId,
    nodes |-> nodes, activeNodeId |-> activeNodeId, connections |-> connections ]

SetStore(st) ==
  /\ explorations' = st.explorations
  /\ currentExplorationId' = st.currentExplorationId
  /\ nodes' = st.nodes
  /\ activeNodeId' = st.activeNodeId
  /\ connections' = st.connections

InitStoreIs(st) ==
  /\ explorations = st.explorations
  /\ currentExplorationId = st.currentExplorationId
  /\ nodes = st.nodes
  /\ activeNodeId = st.activeNodeId
  /\ connections = st.connections

Transform == [x |-> x, y |-> y, scale |-> scale]

SetTransform(t) ==
  /\ x' = t.x
  /\ y' = t.y
  /\ scale' = t.scale

NoCall == [op |-> "none"]

\* An animation of one motion value: framer-motion's animate(value, to)
\* replaces the value's running animation by one from the current value.
NoAnimation == [active |-> FALSE, from |-> RInt(0), to |-> RInt(0)]
animate(from, to) == [active |-> TRUE, from |-> from, to |-> to]
\* The animations of the three motion values; centred is the position of the
\* node the x and y animations were started to centre on, if any.
NoAnimations ==
  [x |-> NoAnimation, y |-> NoAnimation, scale |-> NoAnimation, centred |-> NoPosition]

\* draggedNodeRef.current = null.
NoDraggedNode ==
  [ nodeId |-> NULL, startPos |-> NoPosition, startMouse |-> NoPosition,
    hasMoved |-> FALSE, currentPos |-> NoPosition,
    canvasStartPos |-> NoPosition, canvasStartScale |-> RInt(0) ]

\* No drag gesture in progress; memo = { startX: 0, startY: 0 }.
NoDragMemo == [active |-> FALSE, startX |-> RInt(0), startY |-> RInt(0)]

NoTimer == [pending |-> FALSE, node |-> UndefinedNode]

\* The canvas with no gesture, drag, timer or animation in progress.
CanvasAtRest ==
  /\ animation = NoAnimations
  /\ isDragging = FALSE
  /\ dragMemo = NoDragMemo
  /\ draggingNodeId = NULL
  /\ draggedNodeRef = NoDraggedNode
  /\ isDraggingRef = FALSE
  /\ animationFrameRef = FALSE
  /\ resetTimers = << >>
  /\ centerTimer = NoTimer
  /\ exploring = << >>
  /\ listeners = {}
  /\ mounted = TRUE
  /\ zooms = 0

\* The uuids drawn by uuidv4(), in the order drawn.
ExplorationUuids == <<"e1", "e2", "e3", "e4", "e5", "e6", "e7", "e8">>

(***************************************************************************)
(* SpecZoom: handleZoom applied to transforms drawn from bounded sets.     *)
(***************************************************************************)
MaxZooms == 2

ZoomPans == {RInt(0), RInt(-700), <<75, 2>>}
ZoomScales == {<<1, 2>>, <<3, 5>>, <<19, 20>>, <<1, 1>>}
ZoomFactors == {<<1, 2>>, <<9, 10>>, <<21, 20>>, <<2, 1>>, <<0, 1>>, <<-1, 1>>}
ZoomFoci == {NoFocus, Focus(RInt(0), RInt(0)), Focus(RInt(400), RInt(300)),
             Focus(RInt(123), <<913, 2>>)}

InitZoom ==
  /\ InitStoreIs(InitialStore(ExplorationUuids[1]))
  /\ x \in ZoomPans
  /\ y \in ZoomPans
  /\ scale \in ZoomScales
  /\ last = NoCall
  /\ budget = 0
  /\ CanvasAtRest

ZoomCall ==
  \E zoomFactor \in ZoomFactors, focus \in ZoomFoci :
    /\ budget < MaxZooms
    /\ SetTransform(handleZoom(Transform, zoomFactor, focus))
    /\ last' = [op |-> "handleZoom", zoomFactor |-> zoomFactor, focus |-> focus,
                pre |-> Transform]
    /\ budget' = budget + 1
    /\ UNCHANGED <<storeVars, canvasVars>>

NextZoom == ZoomCall

SpecZoom == InitZoom /\ [][NextZoom]_vars

\* The point the claim calls the focus: the client point relative to the
\* container, or the container's centre when no focus is given.
ClaimedFocus(focus) ==
  IF focus.given
  THEN [x |-> RSub(focus.x, RInt(ContainerLeft)), y |-> RSub(focus.y, RInt(ContainerTop))]
  ELSE [x |-> RHalf(RInt(ViewportWidth)), y |-> RHalf(RInt(ViewportHeight))]

\* C1: after handleZoom(factor, focus) the world point under the focus,
\* (focus - pan) / scale, is the same under the new transform as under the
\* old one, also when the scale is clamped and when no focus is given.
C1_ZoomFocusInvariant ==
  last.op = "handleZoom" =>
    LET f == ClaimedFocus(last.focus)
    IN  /\ screenToWorld(f.x, x, scale) = screenToWorld(f.x, last.pre.x, last.pre.scale)
        /\ screenToWorld(f.y, y, scale) = screenToWorld(f.y, last.pre.y, last.pre.scale)

\* A zoom with a focus away from the centre whose requested scale was clamped
\* to another scale than the old one, so that the pan moved.
C1_Witness ==
  /\ last.op = "handleZoom"
  /\ last.focus.given
  /\ last.focus.x # RHalf(RInt(ViewportWidth))
  /\ RMul(last.pre.scale, last.zoomFactor) # scale
  /\ scale # last.pre.scale
  /\ x # last.pre.x

(***************************************************************************)
(* SpecCollide: resolveCollisionsForNode applied to two nodes drawn from   *)
(* bounded sets of positions, size classes and questions.                  *)
(***************************************************************************)
MaxResolves == 1
CollideCells == 6
CollideStep == 80

CollideCoords == {RInt(i * CollideStep) : i \in (-CollideCells)..CollideCells}
Questions == {NULL, "short"}

\* A store whose current exploration holds exactly the nodes ns and the
\* connections conns.
StoreWith(ns, conns, active) ==
  LET id == ExplorationUuids[1]
  IN  [ explorations |->
          << [ key |-> id,
               val |-> [ createDefaultExploration(id) EXCEPT
                           !.nodes = ns, !.activeNodeId = active,
                           !.connections = [present |-> TRUE, list |-> conns] ] ] >>,
        currentExplorationId |-> id,
        nodes |-> ns,
        activeNodeId |-> active,
        connections |-> conns ]

InitCollide ==
  /\ \E ax \in CollideCoords, ay \in CollideCoords,
        sa \in NodeSize \cup {NULL}, sb \in NodeSize,
        qa \in Questions, qb \in Questions,
        conns \in {<<>>, <<[source |-> "explore", target |-> "n1"]>>} :
       InitStoreIs(StoreWith(
         << [key |-> "explore",
             val |-> MkNode("explore", "explore", "start", qb, Pos(0, 0), sb)],
            [key |-> "n1",
             val |-> MkNode("n1", "branch", "short", qa, [x |-> ax, y |-> ay], sa)] >>,
         conns, "explore"))
  /\ x = RInt(0)
  /\ y = RInt(0)
  /\ scale = RInt(1)
  /\ last = NoCall
  /\ budget = 0
  /\ CanvasAtRest

ResolveCall ==
  \E nodeId \in {"explore", "n1", "missing"} :
    /\ budget < MaxResolves
    /\ SetStore(resolveCollisionsForNodeAction(StoreState, nodeId))
    /\ last' = [op |-> "resolveCollisionsForNode", nodeId |-> nodeId, pre |-> StoreState]
    /\ budget' = budget + 1
    /\ UNCHANGED <<transformVars, canvasVars>>

NextCollide == ResolveCall

SpecCollide == InitCollide /\ [][NextCollide]_vars

\* The unbuffered boxes of two nodes overlap.
Overlaps0(n1, n2) == BoxesOverlap(BoxOf(n1, RInt(0)), BoxOf(n2, RInt(0)))

\* The other node of a two-node map.
OtherKey(ns, k) == CHOOSE o \in KeySet(ns) : o # k

\* C3: for two overlapping nodes a (moved) and b that no connection joins,
\* after resolveCollisionsForNode(a) the boxes no longer overlap, a's
\* coordinate along the axis that had the larger original overlap is
\* unchanged, and b has not moved.
C3_CollisionConvergence ==
  ( /\ last.op = "resolveCollisionsForNode"
    /\ Len(last.pre.nodes) = 2
    /\ Has(last.pre.nodes, last.nodeId) ) =>
    LET a0 == Get(last.pre.nodes, last.nodeId)
        bKey == OtherKey(last.pre.nodes, last.nodeId)
        b0 == Get(last.pre.nodes, bKey)
        a1 == Get(nodes, last.nodeId)
        b1 == Get(nodes, bKey)
    IN  ( Overlaps0(a0, b0) /\ ~isParentChild(last.pre.connections, a0.id, b0.id) ) =>
          /\ ~Overlaps0(a1, b1)
          /\ RLt(overlapY(a0, b0), overlapX(a0, b0)) => a1.position.x = a0.position.x
          /\ RLt(overlapX(a0, b0), overlapY(a0, b0)) => a1.position.y = a0.position.y
          /\ b1 = b0

\* A small node lying inside a tall one: the resolver needs more than one
\* push along y, and x (the larger overlap) stays put.
C3_Witness ==
  /\ last.op = "resolveCollisionsForNode"
  /\ last.nodeId = "n1"
  /\ Len(last.pre.nodes) = 2
  /\ LET a0 == Get(last.pre.nodes, "n1")
         b0 == Get(last.pre.nodes, "explore")
     IN  /\ Overlaps0(a0, b0)
         /\ ~isParentChild(last.pre.connections, "n1", "explore")
         /\ RLt(overlapY(a0, b0), overlapX(a0, b0))
         /\ resolveIterations(last.pre.nodes, last.pre.connections, "n1") > 2
         /\ ~Overlaps0(Get(nodes, "n1"), Get(nodes, "explore"))

(***************************************************************************)
(* SpecLayout: addBranchNodes applied to a parent at a position drawn from *)
(* a bounded set, with 1..MaxChildren children carrying fresh ids.         *)
(***************************************************************************)
MaxAdds == 2
MaxChildren == 3

LayoutXs == {RInt(DEFAULT_X), RInt(-40), <<1205, 2>>}
LayoutYs == {RInt(DEFAULT_Y), RInt(0), <<-775, 3>>}

\* The ids the caller gives the children of the k-th call (uuids in the code).
ChildIds ==
  << <<"a1", "a2", "a3", "a4", "a5">>,
     <<"b1", "b2", "b3", "b4", "b5">>,
     <<"c1", "c2", "c3", "c4", "c5">>,
     <<"d1", "d2", "d3", "d4", "d5">>,
     <<"f1", "f2", "f3", "f4", "f5">>,
     <<"g1", "g2", "g3", "g4", "g5">> >>

ChildContents == <<"short", "medium", "long", "huge", "short">>

\* The branch objects handed to addBranchNodes: id, content and type are set,
\* position and size are not.
Branches(call, n) ==
  [i \in 1..n |-> MkNode(ChildIds[call][i], "branch", ChildContents[i], NULL, NoPosition, NULL)]

InitLayout ==
  /\ \E px \in LayoutXs, py \in LayoutYs, withOther \in BOOLEAN :
       InitStoreIs(StoreWith(
         << [key |-> "explore",
             val |-> MkNode("explore", "explore", "start", NULL,
                            [x |-> px, y |-> py], DEFAULT_NODE_SIZE)] >>
         \o (IF withOther
             THEN << [key |-> "n1",
                      val |-> MkNode("n1", "branch", "short", NULL,
                                     Pos(-900, 40), "sm")] >>
             ELSE << >>),
         IF withOther THEN <<[source |-> "explore", target |-> "n1"]>> ELSE << >>,
         "explore"))
  /\ x = RInt(0)
  /\ y = RInt(0)
  /\ scale = RInt(1)
  /\ last = NoCall
  /\ budget = 0
  /\ CanvasAtRest

\* addBranchNodes(parentId, branchNodes); an exception inside set() leaves
\* the store as it was.
AddBranchCall ==
  \E parentId \in KeySet(nodes) \cup {"missing"}, n \in 1..MaxChildren :
    /\ budget < MaxAdds
    /\ IF addBranchNodesThrows(nodes, parentId)
       THEN UNCHANGED storeVars
       ELSE SetStore(addBranchNodes(StoreState, parentId, Branches(budget + 1, n)))
    /\ last' = [ op |-> "addBranchNodes", parentId |-> parentId, n |-> n,
                 ids |-> SubSeq(ChildIds[budget + 1], 1, n),
                 threw |-> addBranchNodesThrows(nodes, parentId),
                 pre |-> StoreState ]
    /\ budget' = budget + 1
    /\ UNCHANGED <<transformVars, canvasVars>>

NextLayout == AddBranchCall

SpecLayout == InitLayout /\ [][NextLayout]_vars

AddedBranches == last.op = "addBranchNodes" /\ ~last.threw

ParentBefore == Get(last.pre.nodes, last.parentId)

ChildAfter(i) == Get(nodes, last.ids[i])

\* C4: addBranchNodes centres the children's vertical span on the parent's
\* y: the first child is as far above parent.y as the last child is below
\* it, and for an odd number of children the middle child's y is parent.y.
C4_LayoutCentering ==
  AddedBranches =>
    /\ RSub(ParentBefore.position.y, ChildAfter(1).position.y)
         = RSub(ChildAfter(last.n).position.y, ParentBefore.position.y)
    /\ RLe(ChildAfter(1).position.y, ParentBefore.position.y)
    /\ last.n % 2 = 1 =>
         ChildAfter((last.n + 1) \div 2).position.y = ParentBefore.position.y

C4_Witness ==
  /\ AddedBranches
  /\ last.n = 3
  /\ ParentBefore.position.y = <<-775, 3>>
  /\ ChildAfter(2).position.y = <<-775, 3>>
  /\ ChildAfter(1).position.y # ChildAfter(3).position.y

\* C5: addBranchNodes(P, [c0..cn-1]) with fresh distinct ids adds exactly n
\* nodes and appends exactly n connections P->ci in input order, puts every
\* child at x = P.x + 700 with consecutive children 160 apart in y, and
\* leaves every earlier node and connection as it was; a root at (500,300)
\* with three children gives (1200,140), (1200,300), (1200,460).
C5_BranchGeneration ==
  AddedBranches =>
    /\ Len(nodes) = Len(last.pre.nodes) + last.n
    /\ SubSeq(nodes, 1, Len(last.pre.nodes)) = last.pre.nodes
    /\ \A i \in 1..last.n : nodes[Len(last.pre.nodes) + i].key = last.ids[i]
    /\ connections = last.pre.connections
                       \o [i \in 1..last.n |->
                             [source |-> last.parentId, target |-> last.ids[i]]]
    /\ \A i \in 1..last.n :
         ChildAfter(i).position.x = RAdd(ParentBefore.position.x, RInt(700))
    /\ \A i \in 1..(last.n - 1) :
         RSub(ChildAfter(i + 1).position.y, ChildAfter(i).position.y) = RInt(160)
    /\ ( ParentBefore.position = Pos(500, 300) /\ last.n = 3 ) =>
         /\ ChildAfter(1).position = Pos(1200, 140)
         /\ ChildAfter(2).position = Pos(1200, 300)
         /\ ChildAfter(3).position = Pos(1200, 460)

C5_Witness ==
  /\ AddedBranches
  /\ last.n = 3
  /\ last.parentId = "explore"
  /\ Len(last.pre.nodes) = 2
  /\ ParentBefore.position = Pos(500, 300)
  /\ ChildAfter(3).position = Pos(1200, 460)
  /\ Len(connections) = 4

(***************************************************************************)
(* SpecExpand: repositionOverlappingNodes applied to a node X ("explore")  *)
(* and another node Y ("n1") drawn from bounded sets of positions, size    *)
(* classes and questions.                                                  *)
(***************************************************************************)
MaxToggles == 1
ExpandCells == 4
ExpandStep == 50

ExpandCoords == {RInt(i * ExpandStep) : i \in (-ExpandCells)..ExpandCells}

InitExpand ==
  /\ \E yx \in ExpandCoords, yy \in ExpandCoords, sx \in NodeSize, sy \in NodeSize,
        qx \in Questions, qy \in Questions :
       InitStoreIs(StoreWith(
         << [key |-> "explore",
             val |-> MkNode("explore", "explore", "start", qx, Pos(0, 0), sx)],
            [key |-> "n1",
             val |-> MkNode("n1", "branch", "short", qy, [x |-> yx, y |-> yy], sy)] >>,
         <<[source |-> "explore", target |-> "n1"]>>, "explore"))
  /\ x = RInt(0)
  /\ y = RInt(0)
  /\ scale = RInt(1)
  /\ last = NoCall
  /\ budget = 0
  /\ CanvasAtRest

\* The expand toggle's call repositionOverlappingNodes(node.id, !expanded).
RepositionCall ==
  \E id \in {"explore", "n1", "missing"}, expanded \in BOOLEAN :
    /\ budget < MaxToggles
    /\ IF expanded /\ repositionThrows(nodes, id)
       THEN UNCHANGED storeVars
       ELSE SetStore(repositionOverlappingNodes(StoreState, id, expanded))
    /\ last' = [ op |-> "repositionOverlappingNodes", id |-> id,
                 expanded |-> expanded, pre |-> StoreState ]
    /\ budget' = budget + 1
    /\ UNCHANGED <<transformVars, canvasVars>>

NextExpand == RepositionCall

SpecExpand == InitExpand /\ [][NextExpand]_vars

\* C6: repositionOverlappingNodes(id, false), the call made on collapse,
\* leaves every node's position and the whole store state unchanged.
C6_CollapseNeverDisplaces ==
  ( last.op = "repositionOverlappingNodes" /\ ~last.expanded ) =>
    StoreState = last.pre

\* A collapse of a node whose buffered bounds hold the other node: the same
\* call with expanded = true would have moved it.
C6_Witness ==
  /\ last.op = "repositionOverlappingNodes"
  /\ ~last.expanded
  /\ last.id = "explore"
  /\ needsReposition(Get(last.pre.nodes, "explore"), "explore", Get(last.pre.nodes, "n1"))
  /\ nodes = last.pre.nodes

\* C8: for any node X and any other node Y whose box lies within X's
\* buffered bounds, after repositionOverlappingNodes(X, true) the box of Y
\* does not overlap the box of X (buffer 0).
C8_ExpandPushClears ==
  ( /\ last.op = "repositionOverlappingNodes"
    /\ last.expanded
    /\ Has(last.pre.nodes, last.id) ) =>
    \A i \in 1..Len(last.pre.nodes) :
      needsReposition(Get(last.pre.nodes, last.id), last.id, last.pre.nodes[i].val) =>
        ~Overlaps0(Get(nodes, last.id), Get(nodes, last.pre.nodes[i].key))

(***************************************************************************)
(* Spec: the store.  Init is the state built by the store's initializer;   *)
(* every step is one call of a store action with arguments drawn from      *)
(* small sets.  An exception raised inside set() leaves the state as it    *)
(* was.                                                                    *)
(***************************************************************************)
MaxOps == 3
MaxNodes == 3

\* Node ids a caller may pass: the ids in the map, and one that is not.
NodeIds == KeySet(nodes) \cup {"ghost"}
ExplorationIds == KeySet(explorations) \cup {"none"}

\* The uuid the next createDefaultExploration() draws.
NextUuid == ExplorationUuids[budget + 2]

Init ==
  /\ InitStoreIs(InitialStore(ExplorationUuids[1]))
  /\ x = RInt(0)
  /\ y = RInt(0)
  /\ scale = RInt(1)
  /\ last = NoCall
  /\ budget = 0
  /\ CanvasAtRest

\* One call of a store action: the state after it and the record of the call.
StoreCall(st, call) ==
  /\ budget < MaxOps
  /\ SetStore(st)
  /\ last' = call
  /\ budget' = budget + 1
  /\ UNCHANGED <<transformVars, canvasVars>>

CallSetActiveNode ==
  \E nodeId \in NodeIds \cup {""} :
    StoreCall(setActiveNode(StoreState, nodeId),
              [op |-> "setActiveNode", nodeId |-> nodeId, threw |-> FALSE,
               pre |-> StoreState])

CallUpdateNodeContent ==
  \E nodeId \in NodeIds :
    StoreCall(updateNodeContent(StoreState, nodeId, "long"),
              [op |-> "updateNodeContent", nodeId |-> nodeId, threw |-> FALSE,
               pre |-> StoreState])

CallUpdateNodeQuestion ==
  \E nodeId \in NodeIds :
    StoreCall(updateNodeQuestion(StoreState, nodeId, "short"),
              [op |-> "updateNodeQuestion", nodeId |-> nodeId, threw |-> FALSE,
               pre |-> StoreState])

CallUpdateNodePosition ==
  \E nodeId \in NodeIds :
    StoreCall(updateNodePosition(StoreState, nodeId, Pos(1150, 250)),
              [op |-> "updateNodePosition", nodeId |-> nodeId, threw |-> FALSE,
               pre |-> StoreState])

CallAddBranchNodes ==
  \E parentId \in NodeIds, n \in 1..2 :
    /\ Len(nodes) + n <= MaxNodes
    /\ StoreCall(IF addBranchNodesThrows(nodes, parentId) THEN StoreState
                 ELSE addBranchNodes(StoreState, parentId, Branches(budget + 1, n)),
                 [op |-> "addBranchNodes", nodeId |-> parentId,
                  threw |-> addBranchNodesThrows(nodes, parentId), pre |-> StoreState])

CallClearExploration ==
  \E id \in {NextUuid} :
    StoreCall(clearExploration(StoreState, id),
              [op |-> "clearExploration", nodeId |-> NULL, threw |-> FALSE,
               pre |-> StoreState])

CallCreateNewExploration ==
  \E id \in {NextUuid} :
    StoreCall(createNewExploration(StoreState, id, "named"),
              [op |-> "createNewExploration", nodeId |-> NULL, threw |-> FALSE,
               pre |-> StoreState])

CallDeleteExploration ==
  \E explorationId \in ExplorationIds :
    StoreCall(deleteExploration(StoreState, explorationId, NextUuid),
              [op |-> "deleteExploration", nodeId |-> explorationId, threw |-> FALSE,
               pre |-> StoreState])

CallDeleteNode ==
  \E nodeId \in NodeIds :
    StoreCall(deleteNode(StoreState, nodeId),
              [op |-> "deleteNode", nodeId |-> nodeId, threw |-> FALSE,
               pre |-> StoreState])

CallSwitchExploration ==
  \E explorationId \in ExplorationIds :
    StoreCall(switchExploration(StoreState, explorationId),
              [op |-> "switchExploration", nodeId |-> explorationId, threw |-> FALSE,
               pre |-> StoreState])

CallUpdateExplorationTitle ==
  \E explorationId \in ExplorationIds :
    StoreCall(updateExplorationTitle(StoreState, explorationId, "renamed"),
              [op |-> "updateExplorationTitle", nodeId |-> explorationId,
               threw |-> FALSE, pre |-> StoreState])

CallRepositionOverlappingNodes ==
  \E nodeId \in NodeIds, expanded \in BOOLEAN :
    StoreCall(IF expanded /\ repositionThrows(nodes, nodeId) THEN StoreState
              ELSE repositionOverlappingNodes(StoreState, nodeId, expanded),
              [op |-> "repositionOverlappingNodes", nodeId |-> nodeId,
               threw |-> expanded /\ repositionThrows(nodes, nodeId),
               pre |-> StoreState])

CallResolveCollisionsForNode ==
  \E nodeId \in NodeIds :
    StoreCall(IF resolveThrows(nodes, connections, nodeId)
              THEN resolveCollisionsForNodeThrown(StoreState, nodeId)
              ELSE resolveCollisionsForNodeAction(StoreState, nodeId),
              [op |-> "resolveCollisionsForNode", nodeId |-> nodeId,
               threw |-> resolveThrows(nodes, connections, nodeId),
               pre |-> StoreState])

CallSetConnections ==
  \E newConnections \in {<<>>, connections} :
    StoreCall(setConnections(StoreState, newConnections),
              [op |-> "setConnections", nodeId |-> NULL, threw |-> FALSE,
               pre |-> StoreState])

CallUpdateNodeSize ==
  \E nodeId \in NodeIds :
    StoreCall(updateNodeSize(StoreState, nodeId, "xl"),
              [op |-> "updateNodeSize", nodeId |-> nodeId, threw |-> FALSE,
               pre |-> StoreState])

Next ==
  \/ CallSetActiveNode
  \/ CallUpdateNodeContent
  \/ CallUpdateNodeQuestion
  \/ CallUpdateNodePosition
  \/ CallAddBranchNodes
  \/ CallClearExploration
  \/ CallCreateNewExploration
  \/ CallDeleteExploration
  \/ CallDeleteNode
  \/ CallSwitchExploration
  \/ CallUpdateExplorationTitle
  \/ CallRepositionOverlappingNodes
  \/ CallResolveCollisionsForNode
  \/ CallSetConnections
  \/ CallUpdateNodeSize

Spec == Init /\ [][Next]_vars

\* C7: deleteNode(id) on a current exploration with exactly one node changes
\* nothing and raises no exception; so after any sequence of store
\* operations the current exploration has at least one node.
C7_LastNodeDeletionRefused ==
  /\ ( last.op = "deleteNode" /\ Len(last.pre.nodes) = 1 ) =>
       ( StoreState = last.pre /\ ~last.threw )
  /\ Len(nodes) >= 1
  /\ Has(explorations, currentExplorationId)
  /\ Len(Get(explorations, currentExplorationId).nodes) >= 1

\* The only node is named in a deleteNode call right after an earlier
\* deleteNode has brought the exploration down to that node.
C7_Witness ==
  /\ last.op = "deleteNode"
  /\ Len(last.pre.nodes) = 1
  /\ Has(last.pre.nodes, last.nodeId)
  /\ Len(nodes) = 1
  /\ budget = 3

(***************************************************************************)
(* SpecCanvas: the mounted canvas under user events, frames and timers.    *)
(* The store holds the root node and one branch node.  A handler and the   *)
(* render that follows it, with the effects that render runs, are one step.*)
(***************************************************************************)
MaxCanvasSteps == 4
MaxCanvasZooms == 1

\* The condition of Canvas.tsx 249 and 394.
activeNodeExists(st) == Truthy(st.activeNodeId) /\ Has(st.nodes, st.activeNodeId)

\* The effects of Canvas.tsx 245-371 and 385-422 run again when activeNodeId,
\* the nodes object or draggingNodeId differ from the previous render.
effectsRun(st, dragging, nodesReplaced) ==
  \/ st.activeNodeId # activeNodeId
  \/ nodesReplaced
  \/ dragging # draggingNodeId

\* The mount effect (245-251): setTimeout(() => resetView(), 100), never
\* cleared.  The entry holds the node the closure's resetView reads and the
\* draggingNodeId of the render that scheduled it.
mountEffect(timers, st, dragging, ran) ==
  IF ran /\ activeNodeExists(st)
  THEN Append(timers, [node |-> Get(st.nodes, st.activeNodeId), dragging |-> dragging])
  ELSE timers

\* The centring effect (385-422): its cleanup clears the pending timeout; a
\* new one is set unless a node is being dragged.
centeringEffect(timer, st, dragging, ran) ==
  IF ~ran THEN timer
  ELSE IF dragging # NULL THEN NoTimer
  ELSE IF activeNodeExists(st)
       THEN [pending |-> TRUE, node |-> Get(st.nodes, st.activeNodeId)]
       ELSE NoTimer

\* The render after a handler left the store at st and draggingNodeId at
\* dragging.
Render(st, dragging, nodesReplaced) ==
  /\ SetStore(st)
  /\ draggingNodeId' = dragging
  /\ resetTimers' = mountEffect(resetTimers, st, dragging,
                                effectsRun(st, dragging, nodesReplaced))
  /\ centerTimer' = centeringEffect(centerTimer, st, dragging,
                                    effectsRun(st, dragging, nodesReplaced))

NoRender == UNCHANGED <<storeVars, draggingNodeId, resetTimers, centerTimer>>

nodeDragVars == <<draggedNodeRef, isDraggingRef, animationFrameRef, listeners>>
canvasDragVars == <<isDragging, dragMemo>>

\* What a step records of the state it started from.
CanvasPre ==
  [ t |-> Transform, nodes |-> nodes, draggingNodeId |-> draggingNodeId,
    ref |-> draggedNodeRef, activeNodeId |-> activeNodeId, animation |-> animation ]

\* The event recorded by a step that is not a wheel event.
NoWheelEvent ==
  [ ctrlKey |-> FALSE, deltaX |-> RInt(0), deltaY |-> RInt(0),
    clientX |-> RInt(0), clientY |-> RInt(0) ]

CanvasStep(op, timerDragging, e) ==
  /\ budget < MaxCanvasSteps
  /\ last' = [ op |-> op, pre |-> CanvasPre, timerDragging |-> timerDragging,
               event |-> e ]
  /\ budget' = budget + 1
  /\ UNCHANGED <<exploring, mounted>>

\* A step that is not a zoom event.
CanvasCall(op, timerDragging) ==
  /\ CanvasStep(op, timerDragging, NoWheelEvent)
  /\ UNCHANGED zooms

\* A wheel, pinch or zoom-button event.
ZoomEvent(op, e) ==
  /\ zooms < MaxCanvasZooms
  /\ CanvasStep(op, NULL, e)
  /\ zooms' = zooms + 1

\* The persisted store the canvas mounts over: the default exploration after
\* one branch was generated for its root node.
CanvasStore == addBranchNodes(InitialStore(ExplorationUuids[1]), "explore", Branches(1, 1))

\* After mount: the mount effect has scheduled resetView and, isClient being
\* set, the centring effect has scheduled its timeout.
InitCanvas ==
  /\ InitStoreIs(CanvasStore)
  /\ x = RInt(0)
  /\ y = RInt(0)
  /\ scale = RInt(1)
  /\ animation = NoAnimations
  /\ isDragging = FALSE
  /\ dragMemo = NoDragMemo
  /\ draggingNodeId = NULL
  /\ draggedNodeRef = NoDraggedNode
  /\ isDraggingRef = FALSE
  /\ animationFrameRef = FALSE
  /\ resetTimers = mountEffect(<< >>, CanvasStore, NULL, TRUE)
  /\ centerTimer = centeringEffect(NoTimer, CanvasStore, NULL, TRUE)
  /\ exploring = << >>
  /\ listeners = {}
  /\ mounted = TRUE
  /\ zooms = 0
  /\ last = NoCall
  /\ budget = 0

\* ---- the canvas drag gesture (useCanvasGestures.ts 88-145) ----
DragMovements == { [mx |-> RInt(0), my |-> RInt(0)], [mx |-> RInt(30), my |-> RInt(-20)] }
DragVelocities == { [vx |-> RInt(0), vy |-> RInt(0)], [vx |-> <<1, 2>>, vy |-> RInt(0)] }

\* memo as the handler leaves it; on the first event it starts from the
\* default { startX: 0, startY: 0 }.
onDragMemo(t, dragging, memo, first) ==
  IF dragging # NULL
  THEN (IF first THEN [memo EXCEPT !.startX = RInt(0), !.startY = RInt(0)] ELSE memo)
  ELSE (IF first THEN [memo EXCEPT !.startX = t.x, !.startY = t.y] ELSE memo)

\* x.set(memo.startX + mx); y.set(memo.startY + my), with memo as left above.
onDragTransform(t, dragging, memo, m) ==
  IF dragging # NULL THEN t
  ELSE [t EXCEPT !.x = RAdd(memo.startX, m.mx), !.y = RAdd(memo.startY, m.my)]

significantVelocity(v) == RLt(<<1, 10>>, RAbs(v.vx)) \/ RLt(<<1, 10>>, RAbs(v.vy))

\* The inertia animations started on release (121-142).
onDragInertia(anim, t, dragging, isLast, v) ==
  IF dragging = NULL /\ isLast /\ significantVelocity(v)
  THEN [anim EXCEPT !.x = animate(t.x, RAdd(t.x, RMul(v.vx, RInt(15)))),
                    !.y = animate(t.y, RAdd(t.y, RMul(v.vy, RInt(15)))),
                    !.centred = NoPosition]
  ELSE anim

onDragIsDragging(was, dragging, first, isLast) ==
  IF dragging # NULL THEN was
  ELSE IF isLast THEN FALSE
  ELSE IF first THEN TRUE
  ELSE was

\* One drag event on the canvas background: t is the transform the handler
\* leaves.
CanvasDragEvent(phase, t, v) ==
  /\ CanvasCall("onDrag", NULL)
  /\ SetTransform(t)
  /\ dragMemo' = [ onDragMemo(Transform, draggingNodeId, dragMemo, phase = "first")
                   EXCEPT !.active = (phase # "last") ]
  /\ isDragging' = onDragIsDragging(isDragging, draggingNodeId,
                                    phase = "first", phase = "last")
  /\ animation' = onDragInertia(animation, t, draggingNodeId, phase = "last", v)
  /\ NoRender
  /\ UNCHANGED nodeDragVars

CanvasDrag ==
  \E phase \in {"first", "move", "last"}, m \in DragMovements, v \in DragVelocities :
    /\ (phase = "first") = ~dragMemo.active
    /\ CanvasDragEvent(phase,
         onDragTransform(Transform, draggingNodeId,
                         onDragMemo(Transform, draggingNodeId, dragMemo, phase = "first"), m),
         v)

\* ---- wheel, pinch and the buttons ----
WheelEvents ==
  [ ctrlKey : BOOLEAN, deltaX : {RInt(0)}, deltaY : {RInt(-100), RInt(100)},
    clientX : {RInt(100)}, clientY : {RInt(50)} ]

\* A wheel event: Canvas.tsx 197-230 on window, then useCanvasGestures.ts
\* 177-207 on the container.
Wheel ==
  \E e \in WheelEvents, throttled \in BOOLEAN :
    /\ ZoomEvent(IF e.ctrlKey THEN "modifiedWheel" ELSE "plainWheel", e)
    /\ SetTransform(wheelEvent(Transform, draggingNodeId, e, throttled))
    /\ NoRender
    /\ UNCHANGED <<animation, canvasDragVars, nodeDragVars>>

PinchScales == { <<1, 4>>, <<2, 1>> }
PinchOrigins == { Pos(400, 300), Pos(100, 50) }

\* A pinch event (useCanvasGestures.ts 153-159).
Pinch ==
  \E s \in PinchScales, o \in PinchOrigins :
    /\ ZoomEvent("onPinch", NoWheelEvent)
    /\ SetTransform(onPinch(Transform, s, o.x, o.y))
    /\ NoRender
    /\ UNCHANGED <<animation, canvasDragVars, nodeDragVars>>

\* A click on a zoom button (Canvas.tsx 477-478); the click then reaches the
\* container's onClick (438).
ZoomButton ==
  \E zoomIn \in BOOLEAN :
    /\ ZoomEvent("zoomButton", NoWheelEvent)
    /\ SetTransform(handleZoomButton(Transform, zoomIn))
    /\ Render(setActiveNode(StoreState, ""), draggingNodeId, FALSE)
    /\ UNCHANGED <<animation, canvasDragVars, nodeDragVars>>

\* A click on the reset button (Canvas.tsx 479), then the container's onClick.
ResetButton ==
  /\ CanvasCall("resetButton", NULL)
  /\ SetTransform(resetView(Transform, Has(nodes, activeNodeId),
                            NodeOrUndefined(nodes, activeNodeId)))
  /\ Render(setActiveNode(StoreState, ""), draggingNodeId, FALSE)
  /\ UNCHANGED <<animation, canvasDragVars, nodeDragVars>>

\* ---- clicks ----
\* resetView of ZoomProvider: animate x, y and scale towards the node.
zoomProviderResetView(t, node) ==
  [ x |-> animate(t.x, RSub(RHalf(RInt(ViewportWidth)), node.position.x)),
    y |-> animate(t.y, RSub(RHalf(RInt(ViewportHeight)), node.position.y)),
    scale |-> animate(t.scale, RInt(1)),
    centred |-> node.position ]

\* A click on a node's card, away from its grab handle: BranchNode.tsx 55-71,
\* ExploreNode.tsx 117-130.
NodeClick ==
  \E id \in KeySet(nodes) :
    /\ CanvasCall("nodeClick", NULL)
    /\ Render(setActiveNode(StoreState, id), draggingNodeId, FALSE)
    /\ animation' = IF Get(nodes, id).type = "branch"
                    THEN zoomProviderResetView(Transform, Get(nodes, id))
                    ELSE animation
    /\ UNCHANGED <<transformVars, canvasDragVars, nodeDragVars>>

\* A click on empty canvas (Canvas.tsx 438).
CanvasClick ==
  /\ CanvasCall("canvasClick", NULL)
  /\ Render(setActiveNode(StoreState, ""), draggingNodeId, FALSE)
  /\ UNCHANGED <<transformVars, animation, canvasDragVars, nodeDragVars>>

\* ---- the node drag (useNodeDragging.ts) ----
PointerDowns == { Pos(200, 200) }
PointerMoves == { Pos(202, 201), Pos(260, 170) }

PointerEvents == {"mousemove", "mouseup", "touchmove", "touchend"}

\* addEventListener of the four handlers on one target (563-566); adding a
\* listener that is registered already changes nothing.
addPointerListeners(ls, target) ==
  ls \cup { [target |-> target, type |-> type] : type \in PointerEvents }

\* removeEventListener of the four handlers on one target (449-452).
removePointerListeners(ls, target) ==
  ls \ { [target |-> target, type |-> type] : type \in PointerEvents }

\* The handler of a pointer event type is registered on some target.
Listening(type) == \E l \in listeners : l.type = type

\* handleNodeMouseDown on a grab handle (511-568).
NodeMouseDown ==
  \E id \in KeySet(nodes), e \in PointerDowns :
    /\ mounted
    /\ CanvasCall("nodeMouseDown", NULL)
    /\ Render(setActiveNode(StoreState, ""), id, FALSE)
    /\ draggedNodeRef' =
         [ nodeId |-> id, startPos |-> Get(nodes, id).position, startMouse |-> e,
           hasMoved |-> FALSE, currentPos |-> Get(nodes, id).position,
           canvasStartPos |-> [x |-> x, y |-> y], canvasStartScale |-> scale ]
    /\ isDraggingRef' = TRUE
    /\ animationFrameRef' = TRUE
    /\ listeners' = addPointerListeners(listeners, "document")
    /\ UNCHANGED <<transformVars, animation, canvasDragVars>>

\* The canvas movement of the pointer along one axis: screen movement
\* divided by the current scale.
canvasDelta(client, startMouse, currentScale) == RDiv(RSub(client, startMouse), currentScale)

exceedsClickDistance(d) == RLt(RInt(3), RAbs(d))

\* processMouseMove (366-413).
processMouseMove(ref, e, currentScale) ==
  [ ref EXCEPT
      !.currentPos =
        [ x |-> RAdd(ref.startPos.x, canvasDelta(e.x, ref.startMouse.x, currentScale)),
          y |-> RAdd(ref.startPos.y, canvasDelta(e.y, ref.startMouse.y, currentScale)) ],
      !.hasMoved =
        \/ ref.hasMoved
        \/ exceedsClickDistance(canvasDelta(e.x, ref.startMouse.x, currentScale))
        \/ exceedsClickDistance(canvasDelta(e.y, ref.startMouse.y, currentScale)) ]

\* handleMouseMove / handleTouchMove (416-438).
MouseMove ==
  \E e \in PointerMoves :
    /\ Listening("mousemove") \/ Listening("touchmove")
    /\ isDraggingRef
    /\ draggedNodeRef # NoDraggedNode
    /\ CanvasCall("mouseMove", NULL)
    /\ draggedNodeRef' = processMouseMove(draggedNodeRef, e, scale)
    /\ NoRender
    /\ UNCHANGED <<transformVars, animation, canvasDragVars, isDraggingRef,
                   animationFrameRef, listeners>>

\* updateNodeOnFrame (352-363): writes the position and requests the next
\* frame.
Frame ==
  /\ animationFrameRef
  /\ isDraggingRef
  /\ draggedNodeRef # NoDraggedNode
  /\ CanvasCall("frame", NULL)
  /\ Render(updateNodePosition(StoreState, draggedNodeRef.nodeId, draggedNodeRef.currentPos),
            draggingNodeId, TRUE)
  /\ UNCHANGED <<transformVars, animation, canvasDragVars, nodeDragVars>>

\* The store after the final write of handleMouseUp (466-469).
releasedStore(st, ref) ==
  IF ref.hasMoved
  THEN resolveCollisionsForNodeAction(
         updateNodePosition(st, ref.nodeId, ref.currentPos), ref.nodeId)
  ELSE st

releaseThrows(st, ref) ==
  /\ ref.hasMoved
  /\ resolveThrows(updateNodePosition(st, ref.nodeId, ref.currentPos).nodes,
                   st.connections, ref.nodeId)

\* Mutant of MouseUp: the release neither cancels the frame request nor
\* clears isDraggingRef.
MouseUpWithoutCleanup ==
  /\ Listening("mouseup") \/ Listening("touchend")
  /\ isDraggingRef
  /\ draggedNodeRef # NoDraggedNode
  /\ CanvasCall("mouseUp", NULL)
  /\ Render(releasedStore(StoreState, draggedNodeRef), NULL, draggedNodeRef.hasMoved)
  /\ draggedNodeRef' = NoDraggedNode
  /\ UNCHANGED <<isDraggingRef, animationFrameRef, listeners>>
  /\ UNCHANGED <<transformVars, animation, canvasDragVars>>

\* handleMouseUp / handleTouchEnd (459-508) with cleanupDrag (441-456).
MouseUp ==
  /\ Listening("mouseup") \/ Listening("touchend")
  /\ isDraggingRef
  /\ draggedNodeRef # NoDraggedNode
  /\ CanvasCall("mouseUp", NULL)
  /\ IF releaseThrows(StoreState, draggedNodeRef)
     THEN /\ Render(resolveCollisionsForNodeThrown(
                      updateNodePosition(StoreState, draggedNodeRef.nodeId,
                                         draggedNodeRef.currentPos),
                      draggedNodeRef.nodeId),
                    draggingNodeId, TRUE)
          /\ UNCHANGED nodeDragVars
     ELSE /\ Render(releasedStore(StoreState, draggedNodeRef), NULL,
                    draggedNodeRef.hasMoved)
          /\ draggedNodeRef' = NoDraggedNode
          /\ isDraggingRef' = FALSE
          /\ animationFrameRef' = FALSE
          /\ listeners' = removePointerListeners(listeners, "window")
  /\ UNCHANGED <<transformVars, animation, canvasDragVars>>

\* ---- timers and animation frames ----
\* The oldest setTimeout(() => resetView(), 100) fires (Canvas.tsx 250).
ResetTimerFires ==
  /\ Len(resetTimers) > 0
  /\ CanvasCall("resetTimer", Head(resetTimers).dragging)
  /\ SetTransform(resetView(Transform, TRUE, Head(resetTimers).node))
  /\ resetTimers' = Tail(resetTimers)
  /\ UNCHANGED <<storeVars, draggingNodeId, centerTimer, animation,
                 canvasDragVars, nodeDragVars>>

\* The centring timeout fires (Canvas.tsx 396-417); the draggingNodeId of its
\* closure is null.
CenterTimerFires ==
  /\ centerTimer.pending
  /\ CanvasCall("centerTimer", NULL)
  /\ animation' =
       [ animation EXCEPT
           !.x = animate(x, RSub(RHalf(RInt(ViewportWidth)), centerTimer.node.position.x)),
           !.y = animate(y, RSub(RHalf(RInt(ViewportHeight)), centerTimer.node.position.y)),
           !.centred = centerTimer.node.position ]
  /\ centerTimer' = NoTimer
  /\ UNCHANGED <<storeVars, draggingNodeId, resetTimers, transformVars,
                 canvasDragVars, nodeDragVars>>

\* The value an animation gives its motion value on a frame: its target when
\* it ends, else a value between its end points.
animatedValue(a, value, done) ==
  IF ~a.active THEN value
  ELSE IF done THEN a.to
  ELSE RHalf(RAdd(a.from, a.to))

\* A frame of the running animations.
AnimationFrame ==
  \E done \in BOOLEAN :
    /\ animation.x.active \/ animation.y.active \/ animation.scale.active
    /\ CanvasCall("animationFrame", NULL)
    /\ x' = animatedValue(animation.x, x, done)
    /\ y' = animatedValue(animation.y, y, done)
    /\ scale' = animatedValue(animation.scale, scale, done)
    /\ animation' = IF done THEN NoAnimations ELSE animation
    /\ NoRender
    /\ UNCHANGED <<canvasDragVars, nodeDragVars>>

NextCanvas ==
  \/ CanvasDrag
  \/ Wheel
  \/ Pinch
  \/ ZoomButton
  \/ ResetButton
  \/ NodeClick
  \/ CanvasClick
  \/ NodeMouseDown
  \/ MouseMove
  \/ Frame
  \/ MouseUp
  \/ ResetTimerFires
  \/ CenterTimerFires
  \/ AnimationFrame

SpecCanvas == InitCanvas /\ [][NextCanvas]_vars

GestureOps == {"onDrag", "plainWheel", "modifiedWheel", "onPinch", "zoomButton"}

\* C9: while a node drag is in progress (draggingNodeId is not null) canvas
\* drag, plain wheel, modified wheel, pinch and the zoom buttons leave x, y
\* and scale unchanged.
C9_GestureMutualExclusion ==
  ( last.op \in GestureOps /\ last.pre.draggingNodeId # NULL ) =>
    Transform = last.pre.t

\* The steps of a node drag session: pointer-down on the grab handle, and,
\* while draggingNodeId is set, pointer moves, frames, the release and the
\* resetView timers that were scheduled while no node was dragged.
DragSessionStep ==
  \/ last.op = "nodeMouseDown"
  \/ /\ last.op \in {"mouseMove", "frame", "mouseUp"}
     /\ last.pre.draggingNodeId # NULL
  \/ /\ last.op = "resetTimer"
     /\ last.pre.draggingNodeId # NULL
     /\ last.timerDragging = NULL

PanZoomStep == last.op \in GestureOps \cup {"resetButton"}

SamePositions(ns, before) ==
  /\ KeySet(ns) = KeySet(before)
  /\ \A k \in KeySet(ns) : Get(ns, k).position = Get(before, k).position

\* C10: a canvas pan or zoom never changes a node's stored position, and a
\* node drag session, from pointer-down to release with its frame callbacks
\* and the timers scheduled before it began, never changes x, y or scale.
C10_PanDragDecoupling ==
  /\ PanZoomStep => SamePositions(nodes, last.pre.nodes)
  /\ DragSessionStep => Transform = last.pre.t

(***************************************************************************)
(* Claims about the store under Spec.                                      *)
(***************************************************************************)
FieldUpdateOps ==
  {"updateNodeContent", "updateNodeQuestion", "updateNodePosition", "updateNodeSize"}

\* The last step was a field update naming an id that was no key of nodes.
FieldUpdateOfMissingNode ==
  /\ last.op \in FieldUpdateOps
  /\ ~Has(last.pre.nodes, last.nodeId)

\* C11: updateNodeContent, updateNodeQuestion, updateNodePosition and
\* updateNodeSize called with an id that is not a key of nodes leave the set
\* of node ids and every node unchanged, and do not throw.
C11_MissingNodeNoOp ==
  FieldUpdateOfMissingNode =>
    /\ KeySet(nodes) = KeySet(last.pre.nodes)
    /\ nodes = last.pre.nodes
    /\ ~last.threw

\* C12: after any sequence of store calls (createNewExploration,
\* deleteExploration of the current, of another or of an unknown id,
\* switchExploration, clearExploration, updateExplorationTitle and the node
\* actions), currentExplorationId is non-null and is a key of explorations,
\* and explorations is non-empty.
C12_ExactlyOneCurrent ==
  /\ currentExplorationId # NULL
  /\ Has(explorations, currentExplorationId)
  /\ Len(explorations) >= 1

\* The current exploration was deleted while another one existed.
C12_Witness ==
  /\ last.op = "deleteExploration"
  /\ last.nodeId = last.pre.currentExplorationId
  /\ Len(last.pre.explorations) >= 2
  /\ Len(explorations) = Len(last.pre.explorations) - 1

\* The last step deleted the current exploration.
DeletedCurrent ==
  /\ last.op = "deleteExploration"
  /\ last.nodeId = last.pre.currentExplorationId

RemainingIds == KeySet(last.pre.explorations) \ {last.nodeId}

\* The store holds exactly the fresh default exploration, and it is current.
HoldsFreshDefault ==
  /\ Len(explorations) = 1
  /\ Keys(explorations) = <<currentExplorationId>>
  /\ currentExplorationId \notin KeySet(last.pre.explorations)
  /\ Len(nodes) = 1
  /\ nodes[1].val.type = "explore"
  /\ nodes[1].val.position = Pos(DEFAULT_X, DEFAULT_Y)
  /\ activeNodeId = nodes[1].key
  /\ activeNodeId = nodes[1].val.id
  /\ Get(explorations, currentExplorationId).nodes = nodes
  /\ Get(explorations, currentExplorationId).activeNodeId = activeNodeId

\* C13: when deleteExploration removes the only exploration, the store
\* afterwards holds exactly one exploration with a new id, it is current, and
\* it contains exactly one root node of type explore at (500,300) which is
\* the active node; when others remain, the deleted current one is replaced
\* as current by a remaining one and no new exploration is created.
C13_DeleteFallsBackToDefault ==
  /\ ( DeletedCurrent /\ RemainingIds = {} ) => HoldsFreshDefault
  /\ ( DeletedCurrent /\ RemainingIds # {} ) =>
       /\ currentExplorationId \in RemainingIds
       /\ KeySet(explorations) = RemainingIds
       /\ nodes = Get(explorations, currentExplorationId).nodes
       /\ activeNodeId = Get(explorations, currentExplorationId).activeNodeId

\* The only exploration, holding three nodes by then, was deleted.
C13_Witness ==
  /\ DeletedCurrent
  /\ RemainingIds = {}
  /\ Len(last.pre.nodes) = 3
  /\ Len(nodes) = 1

(***************************************************************************)
(* SpecExplore: the explore action of a node (ExploreNode.tsx 60-92,       *)
(* BranchNode.tsx 76-93) with generateIdeas (useGemini.ts 20-111).  The    *)
(* handler runs to its await, the request is answered later, and in        *)
(* between the history panel (ChatHistory.tsx 64-84) may call the store.   *)
(***************************************************************************)
MaxExploreSteps == 3
MaxExploring == 1

\* The canvas variables other than exploring.
viewVars == <<animation, isDragging, dragMemo, draggingNodeId, draggedNodeRef,
              isDraggingRef, animationFrameRef, resetTimers, centerTimer, listeners,
              mounted, zooms>>

\* How the request to /api/gemini ends: a valid answer, a rejected fetch, a
\* response that is not ok, or a body without answer or branches array.
Outcomes == {"ok", "networkError", "notOk", "invalid"}
Failures == Outcomes \ {"ok"}

\* The answer and the branches of a valid response body.
ApiAnswer == "medium"
ApiBranches == << [title |-> "more", description |-> "short"] >>

\* The answer returned by the catch block (useGemini.ts 107).
FallbackAnswer == "fallback"

\* fallbackBranches (useGemini.ts 87-104); ids are the uuids drawn.
fallbackBranches(ids) ==
  << MkNode(ids[2], "branch", "retry", NULL, Pos(0, 0), DEFAULT_NODE_SIZE),
     MkNode(ids[3], "branch", "rephrase", NULL, Pos(0, 0), DEFAULT_NODE_SIZE) >>

\* data.branches.map(...) of useGemini.ts 56-63.
mappedBranches(branches, ids) ==
  [ i \in 1..Len(branches) |->
      MkNode(ids[i], "branch", branches[i].description, NULL, Pos(0, 0), DEFAULT_NODE_SIZE) ]

\* data.branches as generateIdeas returns them: objects with title and
\* description only.
rawBranches(branches) ==
  [ i \in 1..Len(branches) |->
      [UndefinedNode EXCEPT !.description = branches[i].description] ]

\* useGemini.ts 52-53.
answeredStore(st, req) ==
  updateNodeQuestion(updateNodeContent(st, req.nodeId, ApiAnswer), req.nodeId, req.question)

\* useGemini.ts 69-77: the hook's currentExplorationId and explorations are
\* those of the render that created the handler.
titledAfterFirstQuestion(st, req) ==
  IF Truthy(req.currentExplorationId) /\ req.nodeCount <= 1
  THEN updateExplorationTitle(st, req.currentExplorationId, req.question)
  ELSE st

\* addBranchNodes of useGemini.ts 66 raises a TypeError, which the catch
\* block handles.
generationThrows(st, req) == addBranchNodesThrows(answeredStore(st, req).nodes, req.nodeId)

\* generateIdeas(question, parentId): the store it leaves and what it returns.
generateIdeas(st, req, outcome, ids) ==
  IF outcome = "ok" /\ ~generationThrows(st, req)
  THEN [ st |-> titledAfterFirstQuestion(
                  addBranchNodes(answeredStore(st, req), req.nodeId,
                                 mappedBranches(ApiBranches, ids)), req),
         answer |-> ApiAnswer,
         branches |-> rawBranches(ApiBranches) ]
  ELSE [ st |-> IF outcome = "ok" THEN answeredStore(st, req) ELSE st,
         answer |-> FallbackAnswer,
         branches |-> fallbackBranches(ids) ]

\* ExploreNode.tsx 85: updateNodeContent(node.id, answer).
exploreAnswered(r, req) == updateNodeContent(r.st, req.nodeId, r.answer)

\* ExploreNode.tsx 88: addBranchNodes(node.id, branches) raises a TypeError,
\* which rejects the promise of handleExplore.
exploreThrows(r, req) == addBranchNodesThrows(exploreAnswered(r, req).nodes, req.nodeId)

\* The store when handleExplore has returned or thrown.
exploreResumed(r, req) ==
  IF exploreThrows(r, req) THEN exploreAnswered(r, req)
  ELSE addBranchNodes(exploreAnswered(r, req), req.nodeId, r.branches)

\* The uuids the step after `budget` steps draws for branch nodes.
ExploreUuids == ChildIds[budget + 2]

RemoveAt(s, i) == SubSeq(s, 1, i - 1) \o SubSeq(s, i + 1, Len(s))

InitExplore ==
  /\ InitStoreIs(CanvasStore)
  /\ x = RInt(0)
  /\ y = RInt(0)
  /\ scale = RInt(1)
  /\ last = NoCall
  /\ budget = 0
  /\ CanvasAtRest

ExploreStep(st, call) ==
  /\ budget < MaxExploreSteps
  /\ SetStore(st)
  /\ last' = call
  /\ budget' = budget + 1
  /\ UNCHANGED <<transformVars, viewVars>>

\* explorationId is the exploration that was current when a resumed
\* handleExplore was started.
ExploreCall(op, nodeId, outcome, threw) ==
  [ op |-> op, nodeId |-> nodeId, outcome |-> outcome, threw |-> threw,
    pre |-> StoreState, explorationId |-> NULL ]

\* handleExplore up to its await (ExploreNode.tsx 60-75, BranchNode.tsx 76-86).
HandleExplore ==
  \E id \in KeySet(nodes) :
    /\ Len(exploring) < MaxExploring
    /\ ExploreStep(updateNodeQuestion(StoreState, id, "short"),
                   ExploreCall("handleExplore", id, NULL, FALSE))
    /\ exploring' = Append(exploring,
         [ nodeId |-> id, question |-> "short",
           currentExplorationId |-> currentExplorationId,
           nodeCount |-> Len(nodes) ])

\* The request ends and handleExplore runs from its await to its end.
ExploreResumedWith(i, r, outcome) ==
  /\ ExploreStep(exploreResumed(r, exploring[i]),
                 [ ExploreCall("exploreResumes", exploring[i].nodeId, outcome,
                               exploreThrows(r, exploring[i]))
                   EXCEPT !.explorationId = exploring[i].currentExplorationId ])
  /\ exploring' = RemoveAt(exploring, i)

ExploreResumes ==
  \E i \in 1..Len(exploring), outcome \in Outcomes :
    ExploreResumedWith(i, generateIdeas(StoreState, exploring[i], outcome, ExploreUuids),
                       outcome)

\* handleDeleteBurrow (ChatHistory.tsx 65-68).
HistoryDeleteBurrow ==
  \E id \in KeySet(nodes) :
    /\ ExploreStep(deleteNode(StoreState, id), ExploreCall("deleteNode", id, NULL, FALSE))
    /\ UNCHANGED exploring

\* handleNewExploration (ChatHistory.tsx 71-73).
HistoryNewExploration ==
  /\ ExploreStep(createNewExploration(StoreState, NextUuid, NULL),
                 ExploreCall("createNewExploration", NULL, NULL, FALSE))
  /\ UNCHANGED exploring

\* handleDeleteExploration (ChatHistory.tsx 76-79).
HistoryDeleteExploration ==
  \E id \in KeySet(explorations) :
    /\ ExploreStep(deleteExploration(StoreState, id, NextUuid),
                   ExploreCall("deleteExploration", id, NULL, FALSE))
    /\ UNCHANGED exploring

\* handleSwitchExploration (ChatHistory.tsx 82-84).
HistorySwitchExploration ==
  \E id \in KeySet(explorations) :
    /\ ExploreStep(switchExploration(StoreState, id),
                   ExploreCall("switchExploration", id, NULL, FALSE))
    /\ UNCHANGED exploring

NextExplore ==
  \/ HandleExplore
  \/ ExploreResumes
  \/ HistoryDeleteBurrow
  \/ HistoryNewExploration
  \/ HistoryDeleteExploration
  \/ HistorySwitchExploration

SpecExplore == InitExplore /\ [][NextExplore]_vars

\* The last step resumed an explore action whose request had failed.
ExploreFailed == last.op = "exploreResumes" /\ last.outcome \in Failures

\* A connection from the explored node to a branch node the step added.
FallbackBranchAdded ==
  \E i \in 1..Len(connections) :
    /\ connections[i].source = last.nodeId
    /\ ~Has(last.pre.nodes, connections[i].target)
    /\ Has(nodes, connections[i].target)
    /\ Get(nodes, connections[i].target).type = "branch"

\* C14: when the AI request fails (network error, non-OK status, or a
\* response lacking answer or a branches array), the explore action completes
\* without an exception, the explored node's content becomes the fixed
\* fallback answer, and at least one fallback branch node connected to the
\* explored node is added to the store.
C14_FailureLeavesFallback ==
  ExploreFailed =>
    /\ ~last.threw
    /\ Has(last.pre.nodes, last.nodeId)
    /\ Has(nodes, last.nodeId)
    /\ Get(nodes, last.nodeId).content = FallbackAnswer
    /\ FallbackBranchAdded

\* The same for an explored node that is still in the store when the request
\* fails.
ExploreFailedOnStoredNode ==
  ( ExploreFailed /\ Has(last.pre.nodes, last.nodeId) ) =>
    /\ ~last.threw
    /\ Get(nodes, last.nodeId).content = FallbackAnswer
    /\ FallbackBranchAdded

(***************************************************************************)
(* SpecDrag: a node drag session (useNodeDragging.ts) on the mounted       *)
(* canvas, with the history panel deleting nodes (ChatHistory.tsx 65-68)   *)
(* and the canvas view being unmounted.                                    *)
(***************************************************************************)
\* handleDeleteBurrow while the canvas is mounted.
DragDeleteNode ==
  \E id \in KeySet(nodes) :
    /\ mounted
    /\ CanvasCall("deleteNode", NULL)
    /\ Render(deleteNode(StoreState, id), draggingNodeId, Len(nodes) > 1)
    /\ UNCHANGED <<transformVars, animation, canvasDragVars, nodeDragVars>>

\* The canvas view is unmounted: the cleanup of useNodeDragging.ts 571-575
\* runs cleanupDrag (441-456), and the cleanup of the centring effect
\* (Canvas.tsx 419-421) clears its timeout.
Unmount ==
  /\ mounted
  /\ budget < MaxCanvasSteps
  /\ last' = [ op |-> "unmount", pre |-> CanvasPre, timerDragging |-> NULL,
               event |-> NoWheelEvent ]
  /\ budget' = budget + 1
  /\ mounted' = FALSE
  /\ animationFrameRef' = FALSE
  /\ isDraggingRef' = FALSE
  /\ listeners' = removePointerListeners(listeners, "window")
  /\ centerTimer' = NoTimer
  /\ UNCHANGED <<storeVars, transformVars, animation, canvasDragVars, draggingNodeId,
                 draggedNodeRef, resetTimers, exploring, zooms>>

NextDrag ==
  \/ NodeMouseDown
  \/ MouseMove
  \/ Frame
  \/ MouseUp
  \/ DragDeleteNode
  \/ Unmount

SpecDrag == InitCanvas /\ [][NextDrag]_vars

\* A drag session is in progress: the handlers' guard
\* isDraggingRef.current && draggedNodeRef.current.
DragSessionOpen == isDraggingRef /\ draggedNodeRef # NoDraggedNode

\* The last step was a frame callback or a release of a session whose node
\* was no longer in the store.
DraggedNodeWasDeleted ==
  /\ last.op \in {"frame", "mouseUp"}
  /\ last.pre.ref # NoDraggedNode
  /\ ~Has(last.pre.nodes, last.pre.ref.nodeId)

\* C15: if the dragged node is removed from the store while a drag session is
\* active, the next animation-frame callback ends the session, and no frame
\* callback or release handler writes an entry for the deleted node id.
C15_MidDragDeletionAborts ==
  DraggedNodeWasDeleted =>
    /\ ~Has(nodes, last.pre.ref.nodeId)
    /\ ~DragSessionOpen

\* nodes as updateNodePosition(ref.nodeId, ref.currentPos) leaves them.
ReleaseWritten(ns, ref) ==
  Put(ns, ref.nodeId, [NodeOrUndefined(ns, ref.nodeId) EXCEPT !.position = ref.currentPos])

\* nodes after the release wrote the last pointer-derived position and
\* resolveCollisionsForNode ran for the dragged node.
CommittedAndResolved(ns, ref) ==
  resolveCollisionsForNode(ReleaseWritten(ns, ref), connections, ref.nodeId)

\* C16: every drag session that ends by mouse-up or touch-end, whatever the
\* distance the pointer moved, writes the last pointer-derived position
\* startPos + screenDelta / scale to the store and then runs
\* resolveCollisionsForNode for the dragged node.
C16_ReleaseCommitsAndResolves ==
  last.op = "mouseUp" =>
    /\ nodes = CommittedAndResolved(last.pre.nodes, last.pre.ref)
    /\ ~DragSessionOpen

\* C17: within one drag session the release write follows every frame write,
\* resolveCollisionsForNode runs only after the release write, in the step
\* that ends the session, and once the session is released no frame callback
\* is pending or writes a position: a frame writes only in a session that has
\* not been released.
C17_DragWriteOrdering ==
  /\ animationFrameRef => DragSessionOpen
  /\ last.op = "frame" =>
       /\ last.pre.ref # NoDraggedNode
       /\ draggedNodeRef = last.pre.ref
       /\ Get(nodes, draggedNodeRef.nodeId).position = draggedNodeRef.currentPos
  /\ ( last.op = "mouseUp" /\ last.pre.ref.hasMoved ) =>
       /\ nodes = CommittedAndResolved(last.pre.nodes, last.pre.ref)
       /\ ~DragSessionOpen
       /\ ~animationFrameRef
       /\ draggingNodeId = NULL

\* A session in which a frame wrote a moved position is released.
C17_Witness ==
  /\ last.op = "mouseUp"
  /\ last.pre.ref.hasMoved
  /\ Has(last.pre.nodes, last.pre.ref.nodeId)
  /\ Get(last.pre.nodes, last.pre.ref.nodeId).position = last.pre.ref.currentPos
  /\ last.pre.ref.currentPos # last.pre.ref.startPos
  /\ ~animationFrameRef

\* The last step unmounted the canvas view while a drag was active.
UnmountedWhileDragging ==
  /\ last.op = "unmount"
  /\ last.pre.draggingNodeId # NULL
  /\ last.pre.ref # NoDraggedNode

\* C18: when the canvas view is unmounted while a drag is active, every
\* pointer listener the drag registered (mousemove, mouseup, touchmove,
\* touchend, on the target they were added to) is removed and the pending
\* animation-frame callback is cancelled.
C18_UnmountCleanup ==
  UnmountedWhileDragging =>
    /\ listeners = {}
    /\ ~animationFrameRef
    /\ ~DragSessionOpen

\* After such an unmount no frame callback is pending and the handlers'
\* guard is off.
UnmountStopsCallbacks ==
  UnmountedWhileDragging => ( ~animationFrameRef /\ ~DragSessionOpen )

(***************************************************************************)
(* Claims about centring and wheel routing under SpecCanvas.               *)
(***************************************************************************)
\* node.position * scale + pan = viewport centre, on both axes.
CentredOnScreen(position) ==
  /\ RAdd(RMul(position.x, scale), x) = RHalf(RInt(ViewportWidth))
  /\ RAdd(RMul(position.y, scale), y) = RHalf(RInt(ViewportHeight))

\* The reset button was clicked while the active node existed.
ResetOnExistingNode ==
  /\ last.op = "resetButton"
  /\ Has(last.pre.nodes, last.pre.activeNodeId)

\* The last frame completed animations that were started to centre on a
\* node: by ZoomProvider's resetView or by the centring effect.
CentringAnimationCompleted ==
  /\ last.op = "animationFrame"
  /\ animation = NoAnimations
  /\ last.pre.animation.centred # NoPosition

\* C19: whenever a centring operation on an existing node completes (the
\* reset button, the resetView of the zoom context, the automatic centring
\* after the active node changes), node.position * scale + pan equals the
\* viewport centre, at whatever scale the canvas has.
C19_CenterOnNode ==
  /\ ResetOnExistingNode =>
       CentredOnScreen(Get(last.pre.nodes, last.pre.activeNodeId).position)
  /\ CentringAnimationCompleted => CentredOnScreen(last.pre.animation.centred)

\* The same at scale 1.
CentredAtScaleOne ==
  /\ ResetOnExistingNode =>
       CentredOnScreen(Get(last.pre.nodes, last.pre.activeNodeId).position)
  /\ ( CentringAnimationCompleted /\ scale = RInt(1) ) =>
       CentredOnScreen(last.pre.animation.centred)

\* The last step was a wheel event without ctrl/meta.
PlainWheel == last.op = "plainWheel"

\* The canvas was panned by (-deltaX, -deltaY) of the wheel event.
PannedByWheel ==
  /\ x = RSub(last.pre.t.x, last.event.deltaX)
  /\ y = RSub(last.pre.t.y, last.event.deltaY)

\* C20: a wheel event without ctrl/meta held, received while no node is
\* being dragged, pans the canvas by (-deltaX, -deltaY) and leaves scale
\* unchanged; of the wheel events only one with ctrl/meta held changes scale.
C20_WheelRouting ==
  /\ ( PlainWheel /\ last.pre.draggingNodeId = NULL ) =>
       ( PannedByWheel /\ scale = last.pre.t.scale )
  /\ PlainWheel => scale = last.pre.t.scale

(***************************************************************************)
(* Claims about the explore action under SpecExplore.                      *)
(***************************************************************************)
\* The last step resumed an explore action that was started in an
\* exploration other than the one current when the response arrived.
ResumedInOtherExploration ==
  /\ last.op = "exploreResumes"
  /\ last.explorationId # last.pre.currentExplorationId

\* C21: if another exploration has become current while an AI request
\* started from a node of exploration A is in flight, then when the response
\* arrives no node, connection or content change is applied to the
\* exploration that is now current.
C21_BranchesLandWhereRequested ==
  ResumedInOtherExploration =>
    /\ currentExplorationId = last.pre.currentExplorationId
    /\ nodes = last.pre.nodes
    /\ connections = last.pre.connections
    /\ Get(explorations, currentExplorationId) =
         Get(last.pre.explorations, currentExplorationId)

\* The last step resumed, with a valid response, an explore action on a node
\* that was in the store, in the exploration it was started in.
ExploreSucceeded ==
  /\ last.op = "exploreResumes"
  /\ last.outcome = "ok"
  /\ last.explorationId = last.pre.currentExplorationId
  /\ Has(last.pre.nodes, last.nodeId)

NewNodeKeys == KeySet(nodes) \ KeySet(last.pre.nodes)

NewConnectionIndexes == (Len(last.pre.connections) + 1)..Len(connections)

\* C22: a single explore action on node P whose AI response succeeds with k
\* branches results in exactly k new nodes, each with a distinct non-empty
\* id equal to its key in the nodes map, and exactly k new connections
\* P -> child, counting every addBranchNodes call made for that action.
C22_EachBranchAddedOnce ==
  ExploreSucceeded =>
    /\ Cardinality(NewNodeKeys) = Len(ApiBranches)
    /\ \A k \in NewNodeKeys : Truthy(Get(nodes, k).id) /\ Get(nodes, k).id = k
    /\ Len(connections) = Len(last.pre.connections) + Len(ApiBranches)
    /\ \A i \in NewConnectionIndexes :
         /\ connections[i].source = last.nodeId
         /\ connections[i].target \in NewNodeKeys

(***************************************************************************)
(* Claims about connections and the current exploration under Spec.        *)
(***************************************************************************)
\* The connections stored in an exploration object; one that has no
\* connections property has none.
ConnectionsOf(exploration) ==
  IF exploration.connections.present THEN exploration.connections.list ELSE << >>

ExplorationChangeOps == {"createNewExploration", "switchExploration", "deleteExploration"}

\* C23: after createNewExploration, switchExploration or deleteExploration
\* the store's top-level connections are exactly the connections of the
\* exploration that is now current; a newly created exploration starts with
\* no connections.
C23_ConnectionsFollowCurrent ==
  /\ last.op \in ExplorationChangeOps =>
       connections = ConnectionsOf(Get(explorations, currentExplorationId))
  /\ last.op = "createNewExploration" => connections = << >>

\* Every connection joins two keys of the nodes map.
NoDanglingConnections(ns, conns) ==
  \A i \in 1..Len(conns) : Has(ns, conns[i].source) /\ Has(ns, conns[i].target)

Mentions(conns, nodeId) ==
  \E i \in 1..Len(conns) : conns[i].source = nodeId \/ conns[i].target = nodeId

\* The last step was a deleteNode that removed a node from a store without
\* dangling connections.
NodeDeleted ==
  /\ last.op = "deleteNode"
  /\ NoDanglingConnections(last.pre.nodes, last.pre.connections)
  /\ Has(last.pre.nodes, last.nodeId)
  /\ ~Has(nodes, last.nodeId)

\* C24: deleteNode(id) removes every connection whose source or target is
\* id, so that after addBranchNodes and deleteNode calls every connection
\* in the store has a source and a target that are both keys of nodes.
C24_NoDanglingConnections ==
  NodeDeleted =>
    /\ ~Mentions(connections, last.nodeId)
    /\ NoDanglingConnections(nodes, connections)

\* addBranchNodes on a parent in the store adds no dangling connection.
AddBranchNodesKeepsConnectionsAttached ==
  ( /\ last.op = "addBranchNodes"
    /\ ~last.threw
    /\ NoDanglingConnections(last.pre.nodes, last.pre.connections) ) =>
    NoDanglingConnections(nodes, connections)

\* C25: after any sequence of store operations the store's top-level nodes
\* equal explorations[currentExplorationId].nodes and the top-level
\* activeNodeId equals explorations[currentExplorationId].activeNodeId.
C25_TopLevelMirrorsCurrent ==
  /\ Has(explorations, currentExplorationId)
  /\ nodes = Get(explorations, currentExplorationId).nodes
  /\ activeNodeId = Get(explorations, currentExplorationId).activeNodeId

\* A switch to another exploration whose nodes differ from those on screen.
C25_Witness ==
  /\ last.op = "switchExploration"
  /\ Has(last.pre.explorations, last.nodeId)
  /\ last.nodeId # last.pre.currentExplorationId
  /\ nodes # last.pre.nodes
  /\ currentExplorationId = last.nodeId

(***************************************************************************)
(* The expanded box of a node: its width by NODE_SIZES[size].maxHeight,    *)
(* inflated by the buffer of repositionOverlappingNodes.                   *)
(***************************************************************************)
ExpandedCall ==
  /\ last.op = "repositionOverlappingNodes"
  /\ last.expanded
  /\ Has(last.pre.nodes, last.id)

FullHeightBox(node) ==
  BoxAround(node.position,
            [ width |-> getNodeSize(node).width,
              height |-> RInt(NODE_SIZES[IF node.size # NULL THEN node.size
                                         ELSE calculateNodeSize(node)].maxHeight) ],
            RInt(expandBuffer))

OverlapsFullHeightBox(expandedNode, node) ==
  /\ node.id # expandedNode.id
  /\ BoxesOverlap(FullHeightBox(expandedNode), BoxOf(node, RInt(0)))

MovedByCall(k) == Get(nodes, k).position # Get(last.pre.nodes, k).position

\* Every node that the filter of repositionOverlappingNodes selects is moved.
SelectedNodesAreMoved ==
  ExpandedCall =>
    \A k \in KeySet(last.pre.nodes) :
      needsReposition(Get(last.pre.nodes, last.id), last.id, Get(last.pre.nodes, k))
        <=> MovedByCall(k)

\* C26: after repositionOverlappingNodes(id, true) on a stored node id, the
\* nodes that were moved are exactly the other nodes whose box overlapped
\* the box of node id taken with the height NODE_SIZES[size].maxHeight and
\* inflated by the buffer, whether or not node id has a question.
C26_ExpandUsesExpandedBox ==
  ExpandedCall =>
    \A k \in KeySet(last.pre.nodes) :
      OverlapsFullHeightBox(Get(last.pre.nodes, last.id), Get(last.pre.nodes, k))
        <=> MovedByCall(k)

\* The same for an expanded node that has a question.
ExpandWithQuestionUsesExpandedBox ==
  ( ExpandedCall /\ Truthy(Get(last.pre.nodes, last.id).question) ) =>
    \A k \in KeySet(last.pre.nodes) :
      OverlapsFullHeightBox(Get(last.pre.nodes, last.id), Get(last.pre.nodes, k))
        <=> MovedByCall(k)

\* The last step was addBranchNodes naming a parent that was no key of nodes.
AddBranchNodesOfMissingParent ==
  /\ last.op = "addBranchNodes"
  /\ ~Has(last.pre.nodes, last.nodeId)

\* C27: addBranchNodes(parentId, specs) with a parentId that is not a key of
\* nodes raises no error and leaves nodes, connections and explorations
\* unchanged.
C27_MissingParentNoOp ==
  AddBranchNodesOfMissingParent =>
    /\ ~last.threw
    /\ nodes = last.pre.nodes
    /\ connections = last.pre.connections
    /\ explorations = last.pre.explorations

\* With a missing parent the store is left as it was.
MissingParentLeavesStore ==
  AddBranchNodesOfMissingParent => StoreState = last.pre

(***************************************************************************)
(* Claims about resolveCollisionsForNode and connected nodes.              *)
(***************************************************************************)
\* Some connection of conns has a and b as its two ends, in either order.
Joined(conns, a, b) ==
  \E i \in 1..Len(conns) : {conns[i].source, conns[i].target} = {a, b}

ResolvedStoredNode ==
  /\ last.op = "resolveCollisionsForNode"
  /\ Has(last.pre.nodes, last.nodeId)

\* Every node whose box overlapped the moved node's box before the call is
\* joined to the moved node by a connection.
OnlyJoinedOverlaps ==
  \A k \in KeySet(last.pre.nodes) \ {last.nodeId} :
    Overlaps0(Get(last.pre.nodes, last.nodeId), Get(last.pre.nodes, k))
      => Joined(last.pre.connections, last.nodeId, k)

\* C28: if every node that overlaps the moved node is joined to it by a
\* connection in either direction, resolveCollisionsForNode(movedId) leaves
\* the moved node's position unchanged.
C28_ParentChildExcluded ==
  ( ResolvedStoredNode /\ OnlyJoinedOverlaps ) =>
    Get(nodes, last.nodeId).position = Get(last.pre.nodes, last.nodeId).position

\* The child of a connection was resolved while its box overlapped its
\* parent's box, and it stayed where it was.
C28_Witness ==
  /\ ResolvedStoredNode
  /\ last.nodeId = "n1"
  /\ Len(last.pre.connections) = 1
  /\ last.pre.connections[1].target = "n1"
  /\ Overlaps0(Get(last.pre.nodes, "n1"), Get(last.pre.nodes, "explore"))
  /\ Get(last.pre.nodes, "n1").position # Pos(0, 0)
  /\ Get(nodes, "n1").position = Get(last.pre.nodes, "n1").position

\* The last step was a resolveCollisionsForNode call.
ResolveCalled == last.op = "resolveCollisionsForNode"

ResolvedMissingNode ==
  /\ ResolveCalled
  /\ ~Has(last.pre.nodes, last.nodeId)
  /\ Len(last.pre.nodes) > 1

(***************************************************************************)
(* Isolation of the explorations that are not current.                     *)
(***************************************************************************)
NodeLevelOps ==
  { "updateNodeContent", "updateNodeQuestion", "updateNodePosition", "updateNodeSize",
    "addBranchNodes", "deleteNode", "repositionOverlappingNodes",
    "resolveCollisionsForNode", "setActiveNode" }

\* Exploration id has the same nodes, activeNodeId and title as before the call.
LeftAsItWas(id) ==
  /\ Has(explorations, id)
  /\ Get(explorations, id).nodes = Get(last.pre.explorations, id).nodes
  /\ Get(explorations, id).activeNodeId = Get(last.pre.explorations, id).activeNodeId
  /\ Get(explorations, id).title = Get(last.pre.explorations, id).title

SwitchedToStored ==
  /\ last.op = "switchExploration"
  /\ Has(last.pre.explorations, last.nodeId)

\* C30: a node-level operation (update*, addBranchNodes, deleteNode,
\* repositionOverlappingNodes, resolveCollisionsForNode, setActiveNode) leaves
\* the nodes, activeNodeId and title of every exploration other than the
\* current one unchanged, and switchExploration to a stored exploration makes
\* exactly that exploration's stored nodes and activeNodeId the top-level ones.
C30_ExplorationsIsolated ==
  /\ last.op \in NodeLevelOps =>
       /\ currentExplorationId = last.pre.currentExplorationId
       /\ \A id \in KeySet(last.pre.explorations) \ {last.pre.currentExplorationId} :
            LeftAsItWas(id)
  /\ SwitchedToStored =>
       /\ nodes = Get(last.pre.explorations, last.nodeId).nodes
       /\ activeNodeId = Get(last.pre.explorations, last.nodeId).activeNodeId
       /\ \A id \in KeySet(last.pre.explorations) : LeftAsItWas(id)

\* A node-level operation changed the current exploration's nodes while
\* another exploration with different nodes was stored.
C30_Witness ==
  /\ last.op \in NodeLevelOps
  /\ ~last.threw
  /\ nodes # last.pre.nodes
  /\ \E id \in KeySet(explorations) \ {currentExplorationId} :
       /\ Get(explorations, id).nodes # nodes
       /\ Get(explorations, id).nodes # last.pre.nodes

\* An exploration was left, the other one was changed, and the switch back
\* brought the first one's nodes back.
SwitchedBack ==
  /\ SwitchedToStored
  /\ last.nodeId # last.pre.currentExplorationId
  /\ nodes # last.pre.nodes
  /\ budget = 3

====
